---- MODULE Spec2Model ----
(***************************************************************************)
(* A model of the browser shell's data managers and blockers              *)
(* (src/bookmarks.py, src/history.py, src/productivity/*.py,               *)
(* src/password_manager.py, src/smart/notes.py,                            *)
(* src/privacy/tracker_blocker.py).                                        *)
(*                                                                         *)
(* Every manager object is one record variable whose fields carry the      *)
(* names of the Python attributes; its persisted JSON document is a second *)
(* variable.  Python strings that the code inspects (lower(), `in`,        *)
(* split()) are sequences of one-character strings, so that the string     *)
(* operations are computed and not assumed.  The managers share no state;  *)
(* `focus` names the manager a run exercises.                              *)
(***************************************************************************)
EXTENDS Integers, Sequences, FiniteSets, TLC

VARIABLES
    focus,      \* the manager the run exercises
    now,        \* datetime.now(), a logical clock
    ret,        \* the last call: its name, arguments and returned value
    bm,         \* BookmarkManager: bookmarks, folders
    bmFile,     \* bookmarks.json
    hist,       \* HistoryManager: history, max_entries
    histFile,   \* history.json
    todo,       \* TodoManager: todos, categories
    todoFile,   \* todos.json
    cal,        \* Calendar: events, notes
    calFile,    \* calendar.json
    pn,         \* PageNotesManager: notes
    pnFile,     \* page_notes.json
    pw,         \* PasswordManager: master_password, cipher, passwords, master_hash
    pwFile,     \* passwords.enc
    masterFile, \* master.hash
    sb,         \* SiteBlocker: enabled, rules, whitelist, blocked_count, schedule_*, blocked_pages
    sbFile,     \* site_blocker.json
    tr,         \* Translator: history, favorites, source_lang, target_lang
    trFile,     \* translator.json
    ck,         \* CookieManager: cookies, blocked_domains, allowed_domains, settings
    ckFile,     \* cookies.json
    disk,       \* whether writes to the data directory succeed: ok or failing
    dm,         \* DownloadManager: downloads, progress_callbacks, completion_callbacks
    mm,         \* MediaManager: screenshots, downloads
    mmThreads,  \* the threads started by download_video, in the order of the calls
    px,         \* ProxyManager: proxies, current_proxy, enabled, rotation settings
    pxFile,     \* proxies.json
    pxCall,     \* the check_all_proxies(threaded=True) call in progress and its threads
    tm          \* TabManager: tabs, active_tab_id, groups, max_tabs

vars == <<focus, now, ret, bm, bmFile, hist, histFile, todo, todoFile,
          cal, calFile, pn, pnFile, pw, pwFile, masterFile, sb, sbFile,
    tr, trFile,
    ck, ckFile,
    disk,
    dm,
    mm, mmThreads,
    px, pxFile, pxCall,
    tm>>

\* what a call on one manager leaves alone
BmOthers == <<focus, now, hist, histFile, todo, todoFile, cal, calFile, pn, pnFile, 
                 pw, pwFile, masterFile, sb, sbFile,
    tr, trFile,
    ck, ckFile,
    disk,
    dm,
    mm, mmThreads,
    px, pxFile, pxCall,
    tm>>
HistOthers == <<focus, now, bm, bmFile, todo, todoFile, cal, calFile, pn, pnFile, 
                 pw, pwFile, masterFile, sb, sbFile,
    tr, trFile,
    ck, ckFile,
    disk,
    dm,
    mm, mmThreads,
    px, pxFile, pxCall,
    tm>>
TodoOthers == <<focus, now, bm, bmFile, hist, histFile, cal, calFile, pn, pnFile, 
                 pw, pwFile, masterFile, sb, sbFile,
    tr, trFile,
    ck, ckFile,
    disk,
    dm,
    mm, mmThreads,
    px, pxFile, pxCall,
    tm>>
CalOthers == <<focus, now, bm, bmFile, hist, histFile, todo, todoFile, pn, pnFile, 
                 pw, pwFile, masterFile, sb, sbFile,
    tr, trFile,
    ck, ckFile,
    disk,
    dm,
    mm, mmThreads,
    px, pxFile, pxCall,
    tm>>
PnOthers == <<focus, now, bm, bmFile, hist, histFile, todo, todoFile, cal, calFile, 
                 pw, pwFile, masterFile, sb, sbFile,
    tr, trFile,
    ck, ckFile,
    disk,
    dm,
    mm, mmThreads,
    px, pxFile, pxCall,
    tm>>
PwOthers == <<focus, now, bm, bmFile, hist, histFile, todo, todoFile,
             cal, calFile, pn, pnFile, sb, sbFile,
    tr, trFile,
    ck, ckFile,
    disk,
    dm,
    mm, mmThreads,
    px, pxFile, pxCall,
    tm>>
SbOthers == <<focus, now, bm, bmFile, hist, histFile, todo, todoFile,
             cal, calFile, pn, pnFile, pw, pwFile, masterFile,
    tr, trFile,
    ck, ckFile,
    disk,
    dm,
    mm, mmThreads,
    px, pxFile, pxCall,
    tm>>
TrOthers == <<focus, now, bm, bmFile, hist, histFile, todo, todoFile,
             cal, calFile, pn, pnFile, pw, pwFile, masterFile, sb, sbFile,
    ck, ckFile,
    disk,
    dm,
    mm, mmThreads,
    px, pxFile, pxCall,
    tm>>
CkOthers == <<focus, now, bm, bmFile, hist, histFile, todo, todoFile,
             cal, calFile, pn, pnFile, pw, pwFile, masterFile, sb, sbFile,
             tr, trFile,
    disk,
    dm,
    mm, mmThreads,
    px, pxFile, pxCall,
    tm>>
DiskOthers == <<focus, now, bm, bmFile, hist, histFile, todo, todoFile,
               cal, calFile, pn, pnFile, pw, pwFile, masterFile, sb, sbFile,
               tr, trFile, ck, ckFile,
    dm,
    mm, mmThreads,
    px, pxFile, pxCall,
    tm>>
DmOthers == <<focus, now, bm, bmFile, hist, histFile, todo, todoFile,
             cal, calFile, pn, pnFile, pw, pwFile, masterFile, sb, sbFile,
             tr, trFile, ck, ckFile, disk,
    mm, mmThreads,
    px, pxFile, pxCall,
    tm>>
MmOthers == <<focus, now, bm, bmFile, hist, histFile, todo, todoFile,
             cal, calFile, pn, pnFile, pw, pwFile, masterFile, sb, sbFile,
             tr, trFile, ck, ckFile, disk, dm,
    px, pxFile, pxCall,
    tm>>
PxOthers == <<focus, now, bm, bmFile, hist, histFile, todo, todoFile,
             cal, calFile, pn, pnFile, pw, pwFile, masterFile, sb, sbFile,
             tr, trFile, ck, ckFile, disk, dm, mm, mmThreads,
    tm>>
TmOthers == <<focus, now, bm, bmFile, hist, histFile, todo, todoFile,
             cal, calFile, pn, pnFile, pw, pwFile, masterFile, sb, sbFile,
             tr, trFile, ck, ckFile, disk, dm, mm, mmThreads, px, pxFile, pxCall>>
AllButRet == <<focus, now, bm, bmFile, hist, histFile, todo, todoFile,
               cal, calFile, pn, pnFile, pw, pwFile, masterFile, sb, sbFile,
    tr, trFile,
    ck, ckFile,
    disk,
    dm,
    mm, mmThreads,
    px, pxFile, pxCall,
    tm>>
AllButClock == <<focus, ret, bm, bmFile, hist, histFile, todo, todoFile,
                 cal, calFile, pn, pnFile, 
                 pw, pwFile, masterFile, sb, sbFile,
    tr, trFile,
    ck, ckFile,
    disk,
    dm,
    mm, mmThreads,
    px, pxFile, pxCall,
    tm>>

(***************************************************************************)
(* Bounds of the model.                                                    *)
(***************************************************************************)
MaxList == 2        \* longest list a small-scope run builds
MaxVisits == 2      \* visits counted per history entry
MaxHistory == 101   \* pages visited in the run that fills the history
MaxBlocks == 1      \* pages a SiteBlocker blocks in a run
MaxTranslations == 51   \* translate() calls in the run that fills the history
MaxCallbacks == 2   \* callbacks registered in one list
MaxDownloads == 2   \* downloads added to a DownloadManager
MaxProxies == 2     \* proxies of a ProxyManager
MaxCookies == 2     \* cookies stored by a CookieManager
MaxPtCalls == 3     \* calls made on one PomodoroTimer after start_work
MaxTabsOpened == 51 \* tabs opened in the run that fills the TabManager

\* the readings of the clock: datetime.now() never goes back
Instants == {1, 2}

\* the lengths at which a SiteBlocker run still adds a rule
RuleBookSizes == {0, 1}

\* the failure counts of proxies with which check_all_proxies is still called
FailuresBeforeCheck == {0}

(***************************************************************************)
(* Python values and string operations.                                    *)
(***************************************************************************)
\* A str is a sequence of one-character strings.
EmptyStr == << >>

\* str.lower() on the characters the model uses
LowerChar(c) ==
    CASE c = "A" -> "a"
      [] c = "B" -> "b"
      [] c = "F" -> "f"
      [] c = "U" -> "u"
      [] c = "X" -> "x"
      [] OTHER -> c

Lower(s) == [i \in 1..Len(s) |-> LowerChar(s[i])]

\* `sub in s` for two str
Contains(sub, s) ==
    \E i \in 0..(Len(s) - Len(sub)) :
        \A j \in 1..Len(sub) : s[i + j] = sub[j]

\* s.startswith(p)
StartsWith(s, p) ==
    /\ Len(p) <= Len(s)
    /\ \A j \in 1..Len(p) : s[j] = p[j]

\* seq[:n]
Take(seq, n) == SubSeq(seq, 1, IF n < Len(seq) THEN n ELSE Len(seq))

\* the first index at which the sequence of booleans holds TRUE, 0 if none:
\* the `for x in xs: if test(x): return x` loops, 0 standing for None
FirstIndex(hits) ==
    IF \E i \in 1..Len(hits) : hits[i]
    THEN CHOOSE i \in 1..Len(hits) : hits[i] /\ \A j \in 1..(i - 1) : ~hits[j]
    ELSE 0

Idle == [op |-> "none"]

\* one tick of the clock behind datetime.now()
Tick ==
    /\ now + 1 \in Instants
    /\ now' = now + 1
    /\ UNCHANGED AllButClock

(***************************************************************************)
(* src/bookmarks.py                                                        *)
(***************************************************************************)
\* Bookmark.__init__: `created_at or datetime.now().isoformat()`
Bookmark(url, title, folder, favicon, created_at, t) ==
    [url |-> url, title |-> title, folder |-> folder, favicon |-> favicon,
     created_at |-> IF created_at # 0 THEN created_at ELSE t]

BookmarkToDict(b) ==
    [url |-> b.url, title |-> b.title, folder |-> b.folder,
     favicon |-> b.favicon, created_at |-> b.created_at]

\* Bookmark.from_dict: cls(**data), at time t
BookmarkFromDict(d, t) ==
    Bookmark(d.url, d.title, d.folder, d.favicon, d.created_at, t)

\* the folders dict of a new BookmarkManager (name -> display name)
DefaultFolders ==
    [n \in {"default", "work", "personal"} |->
        CASE n = "default" -> "Default"
          [] n = "work" -> "Work"
          [] n = "personal" -> "Personal"]

NoFile == [exists |-> FALSE]

\* A callback is known by its name and by whether its body raises.  A call
\* of it is recorded with its arguments.
Callbacks == {[name |-> "f", raises |-> FALSE], [name |-> "g", raises |-> TRUE]}

\* for callback in callbacks: try: callback(args) except: pass -- the calls
\* made; the handler swallows what a call raises and the loop goes on
RECURSIVE Notified(_, _)
Notified(callbacks, args) ==
    IF callbacks = << >> THEN << >>
    ELSE LET callback == Head(callbacks)
             call == [callback |-> callback.name, args |-> args,
                      raised |-> callback.raises]
         IN  <<call>> \o Notified(Tail(callbacks), args)

\* a file whose text json.load rejects
Truncated == [exists |-> TRUE, truncated |-> TRUE]

\* open(path, 'w') followed by json.dump raises OSError
WriteRaises == disk = "failing"

\* the files that writing doc over old can leave: a write that raises leaves
\* the old file when open fails and a file cut short when json.dump fails
Written(old, doc) == IF WriteRaises THEN {old, Truncated} ELSE {doc}

\* json.load(f) returns a document
JsonLoads(f) == "truncated" \notin DOMAIN f

\* the dict d without the key: d[key] raises KeyError
Without(d, key) == [k \in DOMAIN d \ {key} |-> d[k]]

\* the index of the first element of dicts that lacks the key, 0 if none does
FirstWithout(dicts, key) ==
    FirstIndex([i \in 1..Len(dicts) |-> key \notin DOMAIN dicts[i]])

\* BookmarkManager._save: the document written to bookmarks.json
BmSaved(m) ==
    [exists |-> TRUE,
     bookmarks |-> [i \in 1..Len(m.bookmarks) |-> BookmarkToDict(m.bookmarks[i])],
     folders |-> m.folders]

\* BookmarkManager.__init__ followed by _load of the document f at time t;
\* cls(**data) raises for a dict without 'url', before folders is assigned,
\* and the except clause empties bookmarks
BmLoad(f, t) ==
    IF f.exists /\ JsonLoads(f) /\ FirstWithout(f.bookmarks, "url") = 0
    THEN [bookmarks |-> [i \in 1..Len(f.bookmarks) |-> BookmarkFromDict(f.bookmarks[i], t)],
          folders |-> f.folders]
    ELSE [bookmarks |-> << >>, folders |-> DefaultFolders]

BmGetAll(m) == m.bookmarks

BmGetByFolder(m, folder) ==
    LET InFolder(b) == b.folder = folder IN SelectSeq(m.bookmarks, InFolder)

BmSearch(m, query) ==
    LET q == Lower(query)
        Hit(b) == Contains(q, Lower(b.title)) \/ Contains(q, Lower(b.url))
    IN SelectSeq(m.bookmarks, Hit)

BmIsBookmarked(m, url) == \E i \in 1..Len(m.bookmarks) : m.bookmarks[i].url = url

\* the call search(query)
BmSearchCall(query) ==
    /\ focus = "bookmarks"
    /\ ret' = [op |-> "search", query |-> query, result |-> BmSearch(bm, query)]
    /\ UNCHANGED <<bm, bmFile>>
    /\ UNCHANGED BmOthers

\* what BookmarkManager.add leaves in memory
BmAdded(m, url, title, folder, t) ==
    [m EXCEPT !.bookmarks = <<Bookmark(url, title, folder, EmptyStr, 0, t)>> \o @]

\* a remove that drops the first bookmark of the url only, as list.remove would
BmRemovedFirstOnly(m, url) ==
    LET i == FirstIndex([k \in 1..Len(m.bookmarks) |-> m.bookmarks[k].url = url])
    IN IF i = 0 THEN m
       ELSE [m EXCEPT !.bookmarks = SubSeq(@, 1, i - 1) \o SubSeq(@, i + 1, Len(@))]

\* what BookmarkManager.remove leaves in memory
BmRemoved(m, url) ==
    LET Other(b) == b.url # url IN [m EXCEPT !.bookmarks = SelectSeq(@, Other)]

BmAdd(url, title, folder) ==
    /\ focus = "bookmarks"
    /\ Len(bm.bookmarks) < MaxList
    /\ bm' = BmAdded(bm, url, title, folder, now)
    /\ bmFile' \in Written(bmFile, BmSaved(bm'))
    /\ ret' = [op |-> "add", url |-> url, title |-> title, folder |-> folder,
               result |-> IF WriteRaises THEN 0 ELSE 1, raised |-> WriteRaises]
    /\ UNCHANGED BmOthers

BmRemove(url) ==
    /\ focus = "bookmarks"
    /\ bm' = BmRemoved(bm, url)
    /\ bmFile' \in IF Len(bm'.bookmarks) < Len(bm.bookmarks)
                    THEN Written(bmFile, BmSaved(bm')) ELSE {bmFile}
    /\ ret' = [op |-> "remove", url |-> url, before |-> bm.bookmarks,
               result |-> Len(bm'.bookmarks) < Len(bm.bookmarks),
               raised |-> WriteRaises /\ Len(bm'.bookmarks) < Len(bm.bookmarks)]
    /\ UNCHANGED BmOthers

\* add_folder(name): display_name defaults to None, so `display_name or name`
BmAddFolder(name) ==
    /\ focus = "bookmarks"
    /\ IF name \notin DOMAIN bm.folders
       THEN /\ bm' = [bm EXCEPT !.folders =
                        [n \in DOMAIN @ \cup {name} |-> IF n = name THEN name ELSE @[n]]]
            /\ bmFile' = BmSaved(bm')
       ELSE UNCHANGED <<bm, bmFile>>
    /\ ret' = [op |-> "add_folder", name |-> name]
    /\ UNCHANGED BmOthers

BmRemoveFolder(name) ==
    /\ focus = "bookmarks"
    /\ IF name \in DOMAIN bm.folders /\ name # "default"
       THEN /\ bm' = [bookmarks |->
                        [i \in 1..Len(bm.bookmarks) |->
                            IF bm.bookmarks[i].folder = name
                            THEN [bm.bookmarks[i] EXCEPT !.folder = "default"]
                            ELSE bm.bookmarks[i]],
                      folders |-> [n \in DOMAIN bm.folders \ {name} |-> bm.folders[n]]]
            /\ bmFile' = BmSaved(bm')
       ELSE UNCHANGED <<bm, bmFile>>
    /\ ret' = [op |-> "remove_folder", name |-> name]
    /\ UNCHANGED BmOthers

(***************************************************************************)
(* src/history.py                                                          *)
(***************************************************************************)
DefaultMaxEntries == 10000      \* HistoryManager.__init__(max_entries=10000)
DefaultGetAllLimit == 100       \* HistoryManager.get_all(limit=100)
DefaultSearchLimit == 50        \* HistoryManager.search(query, limit=50)

\* HistoryEntry.__init__; last_visit 0 stands for None
HistoryEntry(url, title, visit_count, last_visit, favicon, t) ==
    [url |-> url, title |-> title, visit_count |-> visit_count,
     last_visit |-> IF last_visit # 0 THEN last_visit ELSE t,
     favicon |-> favicon,
     first_visit |-> IF last_visit # 0 THEN last_visit ELSE t]

HistoryEntryToDict(h) ==
    [url |-> h.url, title |-> h.title, visit_count |-> h.visit_count,
     last_visit |-> h.last_visit, first_visit |-> h.first_visit,
     favicon |-> h.favicon]

\* a from_dict that forgets to restore first_visit
HistoryEntryFromDictNoFirstVisit(d, t) ==
    HistoryEntry(d.url, d.title, d.visit_count, d.last_visit, d.favicon, t)

HistoryEntryFromDict(d, t) ==
    [HistoryEntry(d.url, d.title, d.visit_count, d.last_visit, d.favicon, t)
        EXCEPT !.first_visit = d.first_visit]

\* HistoryManager._save: the document written to history.json
HistSaved(m) ==
    [exists |-> TRUE,
     history |-> [i \in 1..Len(m.history) |-> HistoryEntryToDict(m.history[i])]]

\* HistoryManager(max_entries).__init__ followed by _load of f at time t
HistLoad(f, max_entries, t) ==
    [history |-> IF f.exists
                 THEN [i \in 1..Len(f.history) |-> HistoryEntryFromDict(f.history[i], t)]
                 ELSE << >>,
     max_entries |-> max_entries]

HistGetAll(m, limit) == Take(m.history, limit)

\* a search that forgets to lower-case the query
HistSearchQueryAsTyped(m, query, limit) ==
    LET Hit(h) == Contains(query, Lower(h.title)) \/ Contains(query, Lower(h.url))
    IN Take(SelectSeq(m.history, Hit), limit)

HistSearch(m, query, limit) ==
    LET q == Lower(query)
        Hit(h) == Contains(q, Lower(h.title)) \/ Contains(q, Lower(h.url))
    IN Take(SelectSeq(m.history, Hit), limit)

\* seq with its element at index i taken out
RemoveAt(seq, i) == SubSeq(seq, 1, i - 1) \o SubSeq(seq, i + 1, Len(seq))

\* an add that does not look for the url among the stored entries
HistAddedNoLookup(m, url, title, t) ==
    LET e == HistoryEntry(url, IF title # EmptyStr THEN title ELSE url,
                          1, 0, EmptyStr, t)
        h1 == <<e>> \o m.history
    IN [m EXCEPT !.history =
            IF Len(h1) > m.max_entries THEN SubSeq(h1, 1, m.max_entries) ELSE h1]

\* what HistoryManager.add leaves in memory; an empty title is falsy
HistAdded(m, url, title, t) ==
    LET i == FirstIndex([k \in 1..Len(m.history) |-> m.history[k].url = url])
    IN IF i # 0
       THEN LET e == [m.history[i] EXCEPT
                        !.visit_count = @ + 1,
                        !.last_visit = t,
                        !.title = IF title # EmptyStr THEN title ELSE @]
            IN [m EXCEPT !.history = <<e>> \o RemoveAt(m.history, i)]
       ELSE LET e == HistoryEntry(url, IF title # EmptyStr THEN title ELSE url,
                                  1, 0, EmptyStr, t)
                h1 == <<e>> \o m.history
            IN [m EXCEPT !.history =
                    IF Len(h1) > m.max_entries THEN SubSeq(h1, 1, m.max_entries) ELSE h1]

HistRemoved(m, url) ==
    LET Other(h) == h.url # url IN [m EXCEPT !.history = SelectSeq(@, Other)]

HistAdd(url, title) ==
    /\ focus = "history"
    /\ \A i \in 1..Len(hist.history) :
          hist.history[i].url = url => hist.history[i].visit_count < MaxVisits
    /\ hist' = HistAdded(hist, url, title, now)
    /\ histFile' \in Written(histFile, HistSaved(hist'))
    /\ ret' = [op |-> "add", url |-> url, title |-> title, raised |-> WriteRaises]
    /\ UNCHANGED HistOthers

HistRemove(url) ==
    /\ focus = "history"
    /\ hist' = HistRemoved(hist, url)
    /\ histFile' \in IF Len(hist'.history) < Len(hist.history)
                      THEN Written(histFile, HistSaved(hist')) ELSE {histFile}
    /\ ret' = [op |-> "remove", url |-> url,
               result |-> Len(hist'.history) < Len(hist.history),
               raised |-> WriteRaises /\ Len(hist'.history) < Len(hist.history)]
    /\ UNCHANGED HistOthers

\* the call search(query) with the default limit
HistSearchCall(query) ==
    /\ focus = "history"
    /\ ret' = [op |-> "search", query |-> query,
               result |-> HistSearch(hist, query, DefaultSearchLimit)]
    /\ UNCHANGED <<hist, histFile>>
    /\ UNCHANGED HistOthers

HistClear ==
    /\ focus = "history"
    /\ hist' = [hist EXCEPT !.history = << >>]
    /\ histFile' \in Written(histFile, HistSaved(hist'))
    /\ ret' = [op |-> "clear", raised |-> WriteRaises]
    /\ UNCHANGED HistOthers

(***************************************************************************)
(* src/productivity/todo_manager.py                                        *)
(***************************************************************************)
None == "None"

\* str(uuid.uuid4())[:8]: eight random hexadecimal digits, not checked
\* against the ids already in use
GeneratedIds == {"0a1b2c3d", "4e5f6a7b"}

\* Todo.__init__ with the generated id; `tags or []`
Todo(id, text, priority, due_date, category, tags, t) ==
    [id |-> id, text |-> text, priority |-> priority, status |-> "pending",
     due_date |-> due_date, category |-> category,
     tags |-> IF tags = None THEN << >> ELSE tags,
     created_at |-> t, updated_at |-> t, completed_at |-> None,
     subtasks |-> << >>, notes |-> EmptyStr, reminder |-> None, repeat |-> None]

TodoToDict(x) ==
    [id |-> x.id, text |-> x.text, priority |-> x.priority, status |-> x.status,
     due_date |-> x.due_date, category |-> x.category, tags |-> x.tags,
     created_at |-> x.created_at, updated_at |-> x.updated_at,
     completed_at |-> x.completed_at, subtasks |-> x.subtasks, notes |-> x.notes,
     reminder |-> x.reminder, repeat |-> x.repeat]

\* Todo.from_dict at time t, with a newly generated id that data['id'] replaces
TodoFromDict(d, id, t) ==
    [Todo(id, d.text, d.priority, d.due_date, d.category, d.tags, t) EXCEPT
        !.id = d.id, !.status = d.status, !.created_at = d.created_at,
        !.updated_at = d.updated_at, !.completed_at = d.completed_at,
        !.subtasks = d.subtasks, !.notes = d.notes, !.reminder = d.reminder,
        !.repeat = d.repeat]

DefaultCategories == <<"default", "work", "personal", "shopping", "health">>

InSeq(x, seq) == \E i \in 1..Len(seq) : seq[i] = x

\* TodoManager._save: the document written to todos.json
TodoSaved(m) ==
    [exists |-> TRUE,
     todos |-> [i \in 1..Len(m.todos) |-> TodoToDict(m.todos[i])],
     categories |-> m.categories]

\* TodoManager.__init__ followed by _load of f; id and t are the uuid and the
\* time the constructor of each Todo draws before from_dict overwrites them
TodoLoad(f, id, t) ==
    IF f.exists
    THEN [todos |-> [i \in 1..Len(f.todos) |-> TodoFromDict(f.todos[i], id, t)],
          categories |-> f.categories]
    ELSE [todos |-> << >>, categories |-> DefaultCategories]

\* TodoManager.get: the position of the todo it returns, 0 for None
TodoGet(m, todo_id) ==
    FirstIndex([k \in 1..Len(m.todos) |-> m.todos[k].id = todo_id])

\* a remove that drops the first todo of the id only, as list.remove would
TodoRemovedFirstOnly(m, todo_id) ==
    LET i == FirstIndex([k \in 1..Len(m.todos) |-> m.todos[k].id = todo_id])
    IN IF i = 0 THEN m
       ELSE [m EXCEPT !.todos = SubSeq(@, 1, i - 1) \o SubSeq(@, i + 1, Len(@))]

TodoRemoved(m, todo_id) ==
    LET Other(x) == x.id # todo_id IN [m EXCEPT !.todos = SelectSeq(@, Other)]

TodoAdd(id, text, category) ==
    /\ focus = "todo"
    /\ Len(todo.todos) < MaxList
    /\ todo' = [todo EXCEPT !.todos =
                    Append(@, Todo(id, text, "medium", None, category, None, now))]
    /\ todoFile' = TodoSaved(todo')
    /\ ret' = [op |-> "add", id |-> id, result |-> Len(todo'.todos)]
    /\ UNCHANGED TodoOthers

TodoRemove(todo_id) ==
    /\ focus = "todo"
    /\ todo' = TodoRemoved(todo, todo_id)
    /\ todoFile' = IF Len(todo'.todos) < Len(todo.todos) THEN TodoSaved(todo') ELSE todoFile
    /\ ret' = [op |-> "remove", id |-> todo_id, before |-> todo.todos,
               result |-> Len(todo'.todos) < Len(todo.todos)]
    /\ UNCHANGED TodoOthers

TodoComplete(todo_id) ==
    LET i == TodoGet(todo, todo_id) IN
    /\ focus = "todo"
    /\ IF i # 0
       THEN /\ todo' = [todo EXCEPT !.todos[i] =
                           [@ EXCEPT !.status = "completed", !.completed_at = now,
                                     !.updated_at = now]]
            /\ todoFile' = TodoSaved(todo')
       ELSE UNCHANGED <<todo, todoFile>>
    /\ ret' = [op |-> "complete", id |-> todo_id, result |-> i # 0]
    /\ UNCHANGED TodoOthers

TodoUncomplete(todo_id) ==
    LET i == TodoGet(todo, todo_id) IN
    /\ focus = "todo"
    /\ IF i # 0
       THEN /\ todo' = [todo EXCEPT !.todos[i] =
                           [@ EXCEPT !.status = "pending", !.completed_at = None,
                                     !.updated_at = now]]
            /\ todoFile' = TodoSaved(todo')
       ELSE UNCHANGED <<todo, todoFile>>
    /\ ret' = [op |-> "uncomplete", id |-> todo_id, result |-> i # 0]
    /\ UNCHANGED TodoOthers

\* update(todo_id, **{key: value}) for an attribute key of Todo
TodoUpdate(todo_id, key, value) ==
    LET i == TodoGet(todo, todo_id) IN
    /\ focus = "todo"
    /\ IF i # 0
       THEN /\ todo' = [todo EXCEPT !.todos[i] =
                           [[@ EXCEPT ![key] = value] EXCEPT !.updated_at = now]]
            /\ todoFile' = TodoSaved(todo')
       ELSE UNCHANGED <<todo, todoFile>>
    /\ ret' = [op |-> "update", id |-> todo_id, result |-> i # 0]
    /\ UNCHANGED TodoOthers

TodoAddCategory(category) ==
    /\ focus = "todo"
    /\ IF ~InSeq(category, todo.categories)
       THEN /\ todo' = [todo EXCEPT !.categories = Append(@, category)]
            /\ todoFile' = TodoSaved(todo')
       ELSE UNCHANGED <<todo, todoFile>>
    /\ ret' = [op |-> "add_category", category |-> category]
    /\ UNCHANGED TodoOthers

TodoRemoveCategory(category) ==
    LET hit == InSeq(category, todo.categories) /\ category # "default"
        at == FirstIndex([k \in 1..Len(todo.categories) |-> todo.categories[k] = category])
    IN
    /\ focus = "todo"
    /\ IF hit
       THEN /\ todo' = [todos |->
                          [i \in 1..Len(todo.todos) |->
                              IF todo.todos[i].category = category
                              THEN [todo.todos[i] EXCEPT !.category = "default"]
                              ELSE todo.todos[i]],
                        categories |-> RemoveAt(todo.categories, at)]
            /\ todoFile' = TodoSaved(todo')
       ELSE UNCHANGED <<todo, todoFile>>
    /\ ret' = [op |-> "remove_category", category |-> category, result |-> hit]
    /\ UNCHANGED TodoOthers

(***************************************************************************)
(* src/productivity/calendar.py                                            *)
(***************************************************************************)
\* CalendarEvent.__init__ with the generated id, then the two assignments of
\* Calendar.add_event (recurrence, reminder)
CalendarEvent(id, title, description, start_time, end_time, all_day, event_type, location, color, t) ==
    [id |-> id, title |-> title, description |-> description,
     start_time |-> start_time, end_time |-> end_time, all_day |-> all_day,
     event_type |-> event_type, location |-> location, color |-> color,
     recurrence |-> None, reminder |-> None, created_at |-> t, updated_at |-> t]

CalendarEventToDict(e) ==
    [id |-> e.id, title |-> e.title, description |-> e.description,
     start_time |-> e.start_time, end_time |-> e.end_time, all_day |-> e.all_day,
     event_type |-> e.event_type, location |-> e.location, color |-> e.color,
     recurrence |-> e.recurrence, reminder |-> e.reminder,
     created_at |-> e.created_at, updated_at |-> e.updated_at]

\* Calendar._save: the document written to calendar.json
CalSaved(m) ==
    [exists |-> TRUE,
     events |-> [i \in 1..Len(m.events) |-> CalendarEventToDict(m.events[i])],
     notes |-> m.notes]

\* Calendar.get_event: the position of the event it returns, 0 for None
CalGetEvent(m, event_id) ==
    FirstIndex([k \in 1..Len(m.events) |-> m.events[k].id = event_id])

CalRemoved(m, event_id) ==
    LET Other(e) == e.id # event_id IN [m EXCEPT !.events = SelectSeq(@, Other)]

CalAddEvent(id, title) ==
    /\ focus = "calendar"
    /\ Len(cal.events) < MaxList
    /\ cal' = [cal EXCEPT !.events =
                  Append(@, CalendarEvent(id, title, EmptyStr, None, None, FALSE,
                                          "event", EmptyStr, "#2196F3", now))]
    /\ calFile' = CalSaved(cal')
    /\ ret' = [op |-> "add", id |-> id, result |-> Len(cal'.events)]
    /\ UNCHANGED CalOthers

CalRemoveEvent(event_id) ==
    /\ focus = "calendar"
    /\ cal' = CalRemoved(cal, event_id)
    /\ calFile' = IF Len(cal'.events) < Len(cal.events) THEN CalSaved(cal') ELSE calFile
    /\ ret' = [op |-> "remove", id |-> event_id, before |-> cal.events,
               result |-> Len(cal'.events) < Len(cal.events)]
    /\ UNCHANGED CalOthers

\* update_event(event_id, **{key: value}) for an attribute key of CalendarEvent
CalUpdateEvent(event_id, key, value) ==
    LET i == CalGetEvent(cal, event_id) IN
    /\ focus = "calendar"
    /\ IF i # 0
       THEN /\ cal' = [cal EXCEPT !.events[i] =
                          [[@ EXCEPT ![key] = value] EXCEPT !.updated_at = now]]
            /\ calFile' = CalSaved(cal')
       ELSE UNCHANGED <<cal, calFile>>
    /\ ret' = [op |-> "update", id |-> event_id, result |-> i # 0]
    /\ UNCHANGED CalOthers

(***************************************************************************)
(* src/smart/notes.py                                                      *)
(***************************************************************************)
\* PageNote.__init__ with the generated id
PageNote(id, content, url, page_title, x, y, color, t) ==
    [id |-> id, content |-> content, url |-> url, page_title |-> page_title,
     x |-> x, y |-> y, color |-> color, created_at |-> t, updated_at |-> t]

PageNoteToDict(n) ==
    [id |-> n.id, content |-> n.content, url |-> n.url, page_title |-> n.page_title,
     x |-> n.x, y |-> n.y, color |-> n.color, created_at |-> n.created_at,
     updated_at |-> n.updated_at]

\* PageNotesManager._save: the document written to page_notes.json
PnSaved(m) ==
    [exists |-> TRUE,
     notes |-> [i \in 1..Len(m.notes) |-> PageNoteToDict(m.notes[i])]]

\* PageNotesManager.get_note: the position of the note it returns, 0 for None
PnGetNote(m, note_id) ==
    FirstIndex([k \in 1..Len(m.notes) |-> m.notes[k].id = note_id])

PnDeleted(m, note_id) ==
    LET Other(n) == n.id # note_id IN [m EXCEPT !.notes = SelectSeq(@, Other)]

PnAddNote(id, content, url) ==
    /\ focus = "notes"
    /\ Len(pn.notes) < MaxList
    /\ pn' = [pn EXCEPT !.notes =
                 Append(@, PageNote(id, content, url, EmptyStr, 0, 0, "#FFEB3B", now))]
    /\ pnFile' = PnSaved(pn')
    /\ ret' = [op |-> "add", id |-> id, result |-> Len(pn'.notes)]
    /\ UNCHANGED PnOthers

\* update_note(note_id, content=content): PageNote.update
PnUpdateNote(note_id, content) ==
    LET i == PnGetNote(pn, note_id) IN
    /\ focus = "notes"
    /\ IF i # 0
       THEN /\ pn' = [pn EXCEPT !.notes[i] =
                         [@ EXCEPT !.content = content, !.updated_at = now]]
            /\ pnFile' = PnSaved(pn')
       ELSE UNCHANGED <<pn, pnFile>>
    /\ ret' = [op |-> "update", id |-> note_id, result |-> i # 0]
    /\ UNCHANGED PnOthers

PnDeleteNote(note_id) ==
    /\ focus = "notes"
    /\ pn' = PnDeleted(pn, note_id)
    /\ pnFile' = IF Len(pn'.notes) < Len(pn.notes) THEN PnSaved(pn') ELSE pnFile
    /\ ret' = [op |-> "remove", id |-> note_id, before |-> pn.notes,
               result |-> Len(pn'.notes) < Len(pn.notes)]
    /\ UNCHANGED PnOthers

\* clear_notes_for_page(url)
PnClearNotesForPage(url) ==
    LET Other(n) == n.url # url IN
    /\ focus = "notes"
    /\ pn' = [pn EXCEPT !.notes = SelectSeq(@, Other)]
    /\ pnFile' = PnSaved(pn')
    /\ ret' = [op |-> "clear_notes_for_page", url |-> url]
    /\ UNCHANGED PnOthers

(***************************************************************************)
(* src/password_manager.py                                                 *)
(***************************************************************************)
\* the cryptography package is installed (the import at lines 10-14 succeeds)
CRYPTO_AVAILABLE == TRUE

\* hashlib.sha256(password).hexdigest() and the Fernet key derived with
\* pbkdf2_hmac: two injective functions of the password
Sha256(password) == <<"sha256", password>>
FernetKey(password) == <<"pbkdf2", password>>

\* PasswordEntry.__init__: `created_at or now`, `modified_at or now`
PasswordEntry(site, username, password, notes, created_at, modified_at, favicon, category, t) ==
    [site |-> site, username |-> username, password |-> password, notes |-> notes,
     created_at |-> IF created_at # 0 THEN created_at ELSE t,
     modified_at |-> IF modified_at # 0 THEN modified_at ELSE t,
     favicon |-> favicon, category |-> category]

PasswordEntryToDict(e) ==
    [site |-> e.site, username |-> e.username, password |-> e.password,
     notes |-> e.notes, created_at |-> e.created_at, modified_at |-> e.modified_at,
     favicon |-> e.favicon, category |-> e.category]

\* PasswordEntry.from_dict: cls(**data), at time t
PasswordEntryFromDict(d, t) ==
    PasswordEntry(d.site, d.username, d.password, d.notes, d.created_at,
                  d.modified_at, d.favicon, d.category, t)

\* a _save_passwords that never writes
PwNotSaved(m, f) == f

\* PasswordManager._save_passwords: passwords.enc after the call
PwSaved(m, f) ==
    IF ~CRYPTO_AVAILABLE \/ m.cipher = None
    THEN f
    ELSE [exists |-> TRUE, key |-> m.cipher,
          data |-> [i \in 1..Len(m.passwords) |-> PasswordEntryToDict(m.passwords[i])]]

\* PasswordManager._load_passwords: decrypting under another key raises
\* InvalidToken, which the bare except swallows
PwLoaded(m, f, t) ==
    IF ~f.exists \/ ~CRYPTO_AVAILABLE THEN m
    ELSE IF m.cipher # None /\ f.key = m.cipher
         THEN [m EXCEPT !.passwords =
                 [i \in 1..Len(f.data) |-> PasswordEntryFromDict(f.data[i], t)]]
         ELSE m

\* PasswordManager.__init__ over the two files at time t
PwNew(mf, f, t) ==
    PwLoaded([master_password |-> None, cipher |-> None, passwords |-> << >>,
              categories |-> <<"default", "work", "social", "finance", "shopping">>,
              master_hash |-> IF mf.exists THEN mf.hash ELSE None],
             f, t)

\* PasswordManager.get: the position of the entry it returns, 0 for None
PwGet(m, site) ==
    FirstIndex([k \in 1..Len(m.passwords) |-> m.passwords[k].site = site])

PwGetAll(m) == m.passwords

\* set_master_password: the manager after the key and the hash are set
PwMasterSet(m, password) ==
    [m EXCEPT !.master_password = password,
              !.cipher = FernetKey(password),
              !.master_hash = Sha256(password)]

\* lock
PwLocked(m) ==
    [m EXCEPT !.cipher = None, !.master_password = None, !.passwords = << >>]

\* unlock(password) over the file f at time t
PwUnlocked(m, f, password, t) ==
    IF CRYPTO_AVAILABLE /\ m.master_hash # None /\ Sha256(password) = m.master_hash
    THEN PwLoaded([m EXCEPT !.master_password = password,
                            !.cipher = FernetKey(password)], f, t)
    ELSE m

PwSetMasterPassword(password) ==
    /\ focus = "password"
    /\ IF CRYPTO_AVAILABLE
       THEN /\ pw' = PwMasterSet(pw, password)
            /\ masterFile' = [exists |-> TRUE, hash |-> Sha256(password)]
            /\ pwFile' = PwSaved(pw', pwFile)
       ELSE UNCHANGED <<pw, pwFile, masterFile>>
    /\ ret' = [op |-> "set_master_password", password |-> password,
               result |-> CRYPTO_AVAILABLE]
    /\ UNCHANGED PwOthers

PwUnlock(password) ==
    LET ok == /\ CRYPTO_AVAILABLE
              /\ pw.master_hash # None
              /\ Sha256(password) = pw.master_hash
    IN
    /\ focus = "password"
    /\ pw' = PwUnlocked(pw, pwFile, password, now)
    /\ ret' = [op |-> "unlock", password |-> password, result |-> ok,
               locked |-> pw.cipher = None]
    /\ UNCHANGED <<pwFile, masterFile>>
    /\ UNCHANGED PwOthers

PwLock ==
    /\ focus = "password"
    /\ pw' = PwLocked(pw)
    /\ ret' = [op |-> "lock", master |-> pw.master_password, before |-> pw.passwords]
    /\ UNCHANGED <<pwFile, masterFile>>
    /\ UNCHANGED PwOthers

\* add(site, username, password) with the default notes and category
PwAdd(site, username, password) ==
    /\ focus = "password"
    /\ Len(pw.passwords) < MaxList
    /\ pw' = [pw EXCEPT !.passwords =
                 <<PasswordEntry(site, username, password, EmptyStr, 0, 0,
                                 EmptyStr, "default", now)>> \o @]
    /\ pwFile' = PwSaved(pw', pwFile)
    /\ ret' = [op |-> "add", site |-> site, result |-> 1]
    /\ UNCHANGED masterFile
    /\ UNCHANGED PwOthers

\* update(site, password=password): the other keywords keep their default None
PwUpdate(site, password) ==
    LET i == PwGet(pw, site) IN
    /\ focus = "password"
    /\ IF i # 0
       THEN /\ pw' = [pw EXCEPT !.passwords[i] =
                         [@ EXCEPT !.password = IF password # EmptyStr THEN password ELSE @,
                                   !.modified_at = now]]
            /\ pwFile' = PwSaved(pw', pwFile)
       ELSE UNCHANGED <<pw, pwFile>>
    /\ ret' = [op |-> "update", site |-> site, result |-> i # 0]
    /\ UNCHANGED masterFile
    /\ UNCHANGED PwOthers

PwRemove(site) ==
    LET Other(e) == e.site # site
        left == SelectSeq(pw.passwords, Other)
    IN
    /\ focus = "password"
    /\ pw' = [pw EXCEPT !.passwords = left]
    /\ pwFile' = IF Len(left) < Len(pw.passwords) THEN PwSaved(pw', pwFile) ELSE pwFile
    /\ ret' = [op |-> "remove", site |-> site, result |-> Len(left) < Len(pw.passwords)]
    /\ UNCHANGED masterFile
    /\ UNCHANGED PwOthers

(***************************************************************************)
(* Regular expressions (re.compile with re.IGNORECASE) over the patterns    *)
(* the blockers use: literal characters, an escaped character, `.` and     *)
(* `.*`.  A compiled pattern is its sequence of atoms.                     *)
(***************************************************************************)
RECURSIVE RegexAtoms(_)
RegexAtoms(p) ==
    IF p = << >> THEN << >>
    ELSE IF Head(p) = "\\" /\ Len(p) >= 2
         THEN <<[lit |-> p[2]]>> \o RegexAtoms(SubSeq(p, 3, Len(p)))
    ELSE IF Head(p) = "." /\ Len(p) >= 2 /\ p[2] = "*"
         THEN <<[star |-> TRUE]>> \o RegexAtoms(SubSeq(p, 3, Len(p)))
    ELSE IF Head(p) = "."
         THEN <<[any |-> TRUE]>> \o RegexAtoms(Tail(p))
    ELSE IF Head(p) \in {"(", ")"}
         THEN <<[paren |-> Head(p)]>> \o RegexAtoms(Tail(p))
    ELSE <<[lit |-> Head(p)]>> \o RegexAtoms(Tail(p))

\* re.compile raises re.error on an unbalanced parenthesis; the only
\* patterns with a parenthesis that the runs draw are unbalanced
RegexCompiles(p) ==
    \A i \in 1..Len(RegexAtoms(p)) : "paren" \notin DOMAIN RegexAtoms(p)[i]

\* compiled.match(s): the atoms match a prefix of s
RECURSIVE RegexMatch(_, _)
RegexMatch(atoms, s) ==
    IF atoms = << >> THEN TRUE
    ELSE IF "star" \in DOMAIN Head(atoms)
         THEN \E k \in 0..Len(s) : RegexMatch(Tail(atoms), SubSeq(s, k + 1, Len(s)))
    ELSE IF "any" \in DOMAIN Head(atoms)
         THEN s # << >> /\ RegexMatch(Tail(atoms), Tail(s))
    ELSE /\ s # << >>
         /\ LowerChar(Head(s)) = LowerChar(Head(atoms).lit)
         /\ RegexMatch(Tail(atoms), Tail(s))

\* compiled.search(s): the atoms match at some position of s
RegexSearch(atoms, s) ==
    \E k \in 0..Len(s) : RegexMatch(atoms, SubSeq(s, k + 1, Len(s)))

(***************************************************************************)
(* src/productivity/site_blocker.py                                        *)
(***************************************************************************)
\* BlockRule.__init__: a regex rule is compiled; `compiled` is << >> for None
\* (compile raised, or another rule type) and <<atoms>> for a pattern object
BlockRule(pattern, rule_type, reason, enabled, t) ==
    [pattern |-> pattern, rule_type |-> rule_type, reason |-> reason,
     enabled |-> enabled, created_at |-> t, hit_count |-> 0, last_hit |-> 0,
     compiled |-> IF rule_type = "regex" /\ RegexCompiles(pattern)
                  THEN <<RegexAtoms(pattern)>> ELSE << >>]

\* a matches that does not look at the rule's enabled flag
BlockRuleMatchesDisabled(rule, url) ==
    IF rule.rule_type = "domain" THEN Contains(Lower(rule.pattern), Lower(url))
    ELSE IF rule.rule_type = "exact" THEN Lower(url) = Lower(rule.pattern)
    ELSE IF rule.rule_type = "prefix" THEN StartsWith(Lower(url), Lower(rule.pattern))
    ELSE IF rule.rule_type = "regex" /\ rule.compiled # << >>
         THEN RegexSearch(rule.compiled[1], url)
    ELSE FALSE

\* BlockRule.matches
BlockRuleMatches(rule, url) ==
    IF ~rule.enabled THEN FALSE
    ELSE IF rule.rule_type = "domain" THEN Contains(Lower(rule.pattern), Lower(url))
    ELSE IF rule.rule_type = "exact" THEN Lower(url) = Lower(rule.pattern)
    ELSE IF rule.rule_type = "prefix" THEN StartsWith(Lower(url), Lower(rule.pattern))
    ELSE IF rule.rule_type = "regex" /\ rule.compiled # << >>
         THEN RegexSearch(rule.compiled[1], url)
    ELSE FALSE

\* BlockRule.record_hit
BlockRuleRecordHit(rule, t) ==
    [rule EXCEPT !.hit_count = @ + 1, !.last_hit = t]

BlockRuleToDict(rule) ==
    [pattern |-> rule.pattern, rule_type |-> rule.rule_type, reason |-> rule.reason,
     enabled |-> rule.enabled, created_at |-> rule.created_at,
     hit_count |-> rule.hit_count, last_hit |-> rule.last_hit]

BlockRuleFromDict(d, t) ==
    [BlockRule(d.pattern, d.rule_type, d.reason, d.enabled, t)
        EXCEPT !.created_at = d.created_at, !.hit_count = d.hit_count,
               !.last_hit = d.last_hit]

DefaultScheduleStart == <<"0", "9", ":", "0", "0">>
DefaultScheduleEnd == <<"1", "7", ":", "0", "0">>
DefaultScheduleDays == <<0, 1, 2, 3, 4>>

\* SiteBlocker._save: blocked_pages is not part of the document
SbSaved(m) ==
    [exists |-> TRUE, enabled |-> m.enabled,
     rules |-> [i \in 1..Len(m.rules) |-> BlockRuleToDict(m.rules[i])],
     whitelist |-> m.whitelist, blocked_count |-> m.blocked_count,
     schedule_enabled |-> m.schedule_enabled, schedule_start |-> m.schedule_start,
     schedule_end |-> m.schedule_end, schedule_days |-> m.schedule_days]

\* SiteBlocker.__init__ followed by _load; the default categories, which
\* only get_stats reads, are left out.  The assignments run in the order of
\* the code until one raises: enabled is assigned before the rules are read,
\* and from_dict raises KeyError for a rule without 'pattern'
SbLoad(f, t) ==
    LET fresh == [enabled |-> FALSE, rules |-> << >>, whitelist |-> << >>,
                  blocked_count |-> 0, schedule_enabled |-> FALSE,
                  schedule_start |-> DefaultScheduleStart,
                  schedule_end |-> DefaultScheduleEnd,
                  schedule_days |-> DefaultScheduleDays,
                  blocked_pages |-> << >>, on_block_callbacks |-> << >>]
    IN  IF ~f.exists \/ ~JsonLoads(f) THEN fresh
        ELSE IF FirstWithout(f.rules, "pattern") # 0
        THEN [fresh EXCEPT !.enabled = f.enabled]
        ELSE [fresh EXCEPT
                !.enabled = f.enabled,
                !.rules = [i \in 1..Len(f.rules) |-> BlockRuleFromDict(f.rules[i], t)],
                !.whitelist = f.whitelist, !.blocked_count = f.blocked_count,
                !.schedule_enabled = f.schedule_enabled,
                !.schedule_start = f.schedule_start, !.schedule_end = f.schedule_end,
                !.schedule_days = f.schedule_days]

\* SiteBlocker.is_whitelisted
SbIsWhitelisted(m, url) ==
    \E i \in 1..Len(m.whitelist) : Contains(Lower(m.whitelist[i]), Lower(url))

\* the parts of s between the occurrences of the character sep: s.split(sep)
RECURSIVE Split(_, _)
Split(s, sep) ==
    IF \A i \in 1..Len(s) : s[i] # sep THEN <<s>>
    ELSE LET i == CHOOSE i \in 1..Len(s) : s[i] = sep /\ \A j \in 1..(i - 1) : s[j] # sep
         IN  <<SubSeq(s, 1, i - 1)>> \o Split(SubSeq(s, i + 1, Len(s)), sep)

DigitValue(c) ==
    CASE c = "0" -> 0 [] c = "1" -> 1 [] c = "2" -> 2 [] c = "3" -> 3 [] c = "4" -> 4
      [] c = "5" -> 5 [] c = "6" -> 6 [] c = "7" -> 7 [] c = "8" -> 8 [] c = "9" -> 9
      [] OTHER -> -1

\* the value of one or two decimal digits, -1 for anything else
TwoDigits(s) ==
    IF Len(s) \notin {1, 2} \/ \E i \in 1..Len(s) : DigitValue(s[i]) < 0 THEN -1
    ELSE IF Len(s) = 1 THEN DigitValue(s[1])
    ELSE 10 * DigitValue(s[1]) + DigitValue(s[2])

\* datetime.strptime(s, '%H:%M').time() in seconds after midnight,
\* -1 where strptime raises ValueError
StrpTime(s) ==
    LET parts == Split(s, ":")
    IN  IF Len(parts) # 2 THEN -1
        ELSE LET h == TwoDigits(parts[1])
                 m == TwoDigits(parts[2])
             IN  IF h < 0 \/ h > 23 \/ m < 0 \/ m > 59 THEN -1
                 ELSE 3600 * h + 60 * m

\* an is_schedule_active that does not look at the weekday
SbIsScheduleActiveAnyDay(m, weekday, time) ==
    IF StrpTime(m.schedule_start) < 0 \/ StrpTime(m.schedule_end) < 0
    THEN [raised |-> "ValueError", value |-> FALSE]
    ELSE [raised |-> None,
          value |-> StrpTime(m.schedule_start) <= time /\ time <= StrpTime(m.schedule_end)]

\* SiteBlocker.is_schedule_active at a reading (weekday, seconds after
\* midnight) of the clock: the boolean it returns, or the ValueError that
\* strptime raises
SbIsScheduleActive(m, weekday, time) ==
    IF ~InSeq(weekday, m.schedule_days)
    THEN [raised |-> None, value |-> FALSE]
    ELSE IF StrpTime(m.schedule_start) < 0 \/ StrpTime(m.schedule_end) < 0
    THEN [raised |-> "ValueError", value |-> FALSE]
    ELSE [raised |-> None,
          value |-> StrpTime(m.schedule_start) <= time /\ time <= StrpTime(m.schedule_end)]

\* SiteBlocker._notify_block: the calls of the registered callbacks
SbNotifyBlock(m, url, rule) == Notified(m.on_block_callbacks, <<url, rule.pattern>>)

\* SiteBlocker.should_block(url) at a reading of the clock: the exception
\* raised or the pair returned (the rule as its position in rules, 0 for
\* None), the blocker afterwards, whether _save ran, and the callbacks called
SbShouldBlock(m, url, weekday, time, t) ==
    LET allow == [raised |-> None, result |-> <<FALSE, 0>>, m |-> m, saved |-> FALSE,
                  called |-> << >>]
        i == FirstIndex([k \in 1..Len(m.rules) |-> BlockRuleMatches(m.rules[k], url)])
        hit == [m EXCEPT
                  !.rules[i] = BlockRuleRecordHit(@, t),
                  !.blocked_count = @ + 1,
                  !.blocked_pages = Append(@, [url |-> url, rule |-> m.rules[i].pattern,
                                               timestamp |-> t])]
    IN  IF ~m.enabled THEN allow
        ELSE IF SbIsWhitelisted(m, url) THEN allow
        ELSE IF m.schedule_enabled /\ SbIsScheduleActive(m, weekday, time).raised # None
        THEN [allow EXCEPT !.raised = SbIsScheduleActive(m, weekday, time).raised]
        ELSE IF m.schedule_enabled /\ ~SbIsScheduleActive(m, weekday, time).value
        THEN allow
        ELSE IF i = 0 THEN allow
        ELSE [raised |-> None, result |-> <<TRUE, i>>, m |-> hit, saved |-> TRUE,
              called |-> SbNotifyBlock(hit, url, hit.rules[i])]

SbShouldBlockCall(url, weekday, time) ==
    /\ focus = "site_blocker"
    /\ sb.blocked_count < MaxBlocks
    /\ LET out == SbShouldBlock(sb, url, weekday, time, now)
       IN  /\ sb' = out.m
           /\ sbFile' = IF out.saved THEN SbSaved(out.m) ELSE sbFile
           /\ ret' = [op |-> "SiteBlocker.should_block", url |-> url,
                      weekday |-> weekday, time |-> time, raised |-> out.raised,
                      result |-> out.result, before |-> sb, called |-> out.called]
    /\ UNCHANGED SbOthers

SbAddRule(pattern, rule_type, reason) ==
    /\ focus = "site_blocker"
    /\ Len(sb.rules) \in RuleBookSizes
    /\ sb' = [sb EXCEPT !.rules = Append(@, BlockRule(pattern, rule_type, reason, TRUE, now))]
    /\ sbFile' = SbSaved(sb')
    /\ ret' = [op |-> "SiteBlocker.add_rule"]
    /\ UNCHANGED SbOthers

SbRemoveRule(pattern) ==
    /\ focus = "site_blocker"
    /\ LET kept == SelectSeq(sb.rules, LAMBDA r : r.pattern # pattern)
       IN  /\ sb' = [sb EXCEPT !.rules = kept]
           /\ sbFile' = IF Len(kept) < Len(sb.rules) THEN SbSaved(sb') ELSE sbFile
           /\ ret' = [op |-> "SiteBlocker.remove_rule",
                      result |-> Len(kept) < Len(sb.rules)]
    /\ UNCHANGED SbOthers

\* enable_rule and disable_rule: the first rule with the pattern
SbSetRuleEnabled(m, pattern, enabled) ==
    LET i == FirstIndex([k \in 1..Len(m.rules) |-> m.rules[k].pattern = pattern])
    IN  IF i = 0 THEN m ELSE [m EXCEPT !.rules[i].enabled = enabled]

SbEnableRule(pattern) ==
    /\ focus = "site_blocker"
    /\ LET found == \E k \in 1..Len(sb.rules) : sb.rules[k].pattern = pattern
       IN  /\ sb' = SbSetRuleEnabled(sb, pattern, TRUE)
           /\ sbFile' = IF found THEN SbSaved(sb') ELSE sbFile
           /\ ret' = [op |-> "SiteBlocker.enable_rule", result |-> found]
    /\ UNCHANGED SbOthers

SbDisableRule(pattern) ==
    /\ focus = "site_blocker"
    /\ LET found == \E k \in 1..Len(sb.rules) : sb.rules[k].pattern = pattern
       IN  /\ sb' = SbSetRuleEnabled(sb, pattern, FALSE)
           /\ sbFile' = IF found THEN SbSaved(sb') ELSE sbFile
           /\ ret' = [op |-> "SiteBlocker.disable_rule", result |-> found]
    /\ UNCHANGED SbOthers

SbAddToWhitelist(domain) ==
    /\ focus = "site_blocker"
    /\ sb' = IF InSeq(domain, sb.whitelist) THEN sb
             ELSE [sb EXCEPT !.whitelist = Append(@, domain)]
    /\ sbFile' = IF InSeq(domain, sb.whitelist) THEN sbFile ELSE SbSaved(sb')
    /\ ret' = [op |-> "SiteBlocker.add_to_whitelist"]
    /\ UNCHANGED SbOthers

\* list.remove drops the first occurrence
SbRemoveFromWhitelist(domain) ==
    /\ focus = "site_blocker"
    /\ LET i == FirstIndex([k \in 1..Len(sb.whitelist) |-> sb.whitelist[k] = domain])
       IN  /\ sb' = IF i = 0 THEN sb ELSE [sb EXCEPT !.whitelist = RemoveAt(@, i)]
           /\ sbFile' = IF i = 0 THEN sbFile ELSE SbSaved(sb')
           /\ ret' = [op |-> "SiteBlocker.remove_from_whitelist", result |-> i # 0]
    /\ UNCHANGED SbOthers

SbToggle ==
    /\ focus = "site_blocker"
    /\ sb' = [sb EXCEPT !.enabled = ~@]
    /\ sbFile' = SbSaved(sb')
    /\ ret' = [op |-> "SiteBlocker.toggle"]
    /\ UNCHANGED SbOthers

\* SiteBlocker.on_block
SbOnBlock(callback) ==
    /\ focus = "site_blocker"
    /\ Len(sb.on_block_callbacks) < MaxCallbacks
    /\ sb' = [sb EXCEPT !.on_block_callbacks = Append(@, callback)]
    /\ ret' = [op |-> "SiteBlocker.on_block"]
    /\ UNCHANGED <<sbFile, SbOthers>>

\* set_schedule: `if days:` keeps the stored days for None and for []
SbSetSchedule(enabled, start, end, days) ==
    /\ focus = "site_blocker"
    /\ sb' = [sb EXCEPT !.schedule_enabled = enabled, !.schedule_start = start,
                        !.schedule_end = end,
                        !.schedule_days = IF days # << >> THEN days ELSE @]
    /\ sbFile' = SbSaved(sb')
    /\ ret' = [op |-> "SiteBlocker.set_schedule"]
    /\ UNCHANGED SbOthers

(***************************************************************************)
(* src/privacy/tracker_blocker.py                                          *)
(***************************************************************************)
\* TrackerPattern.__init__
TrackerPattern(pattern, category, description) ==
    [pattern |-> pattern, compiled |-> RegexAtoms(pattern), category |-> category,
     description |-> description]

\* Tracker.__init__
Tracker(domain, category) ==
    [domain |-> domain, category |-> category, blocked_count |-> 0,
     first_seen |-> 0, last_seen |-> 0]

\* d[k] += 1 on a defaultdict(int)
Incremented(d, k) ==
    IF k \in DOMAIN d THEN [d EXCEPT ![k] = @ + 1] ELSE d @@ (k :> 1)

\* TrackerBlocker.__init__: the attributes are bound, then
\* _load_default_filters evaluates its list literal, in which the name
\* TrackerTrackerPattern is not defined: NameError leaves __init__ before
\* self.filters is bound and before blocked_domains is filled, and the caller
\* gets no object.
TrackerBlockerNew ==
    [raised |-> "NameError",
     obj |-> [enabled |-> TRUE, blocked_domains |-> {}, whitelist |-> {},
              trackers |-> << >>,
              stats |-> [total_blocked |-> 0, by_category |-> << >>,
                         by_domain |-> << >>]]]

\* CryptoMinerBlocker.__init__: super().__init__() raises before
\* _load_cryptominer_filters is called
CryptoMinerBlockerNew == TrackerBlockerNew

\* TrackerBlocker._extract_domain
TbExtractDomain(url) ==
    LET domain == IF Contains(<<":", "/", "/">>, url)
                  THEN Split(url, "/")[3] ELSE Split(url, "/")[1]
    IN  Split(domain, ":")[1]

\* TrackerBlocker._record_block
TbRecordBlock(o, domain, category) ==
    LET known == IF domain \in DOMAIN o.trackers THEN o.trackers
                 ELSE o.trackers @@ (domain :> Tracker(domain, category))
    IN  [o EXCEPT
           !.stats.total_blocked = @ + 1,
           !.stats.by_category = Incremented(@, category),
           !.stats.by_domain = Incremented(@, domain),
           !.trackers = [known EXCEPT ![domain].blocked_count = @ + 1]]

\* TrackerBlocker.should_block: the pair returned (the filter as its position
\* in filters, 0 for None) and the blocker afterwards
TbShouldBlock(o, url) ==
    LET domain == TbExtractDomain(url)
        i == FirstIndex([k \in 1..Len(o.filters) |->
                            RegexMatch(o.filters[k].compiled, url)])
    IN  IF ~o.enabled THEN [result |-> <<FALSE, 0>>, o |-> o]
        ELSE IF domain \in o.whitelist THEN [result |-> <<FALSE, 0>>, o |-> o]
        ELSE IF domain \in o.blocked_domains
        THEN [result |-> <<TRUE, 0>>, o |-> TbRecordBlock(o, domain, "manual")]
        ELSE IF i # 0
        THEN [result |-> <<TRUE, i>>,
              o |-> TbRecordBlock(o, domain, o.filters[i].category)]
        ELSE [result |-> <<FALSE, 0>>, o |-> o]

\* CryptoMinerBlocker.should_block: the whitelist is not read
CmShouldBlock(o, url) ==
    IF ~o.enabled THEN FALSE
    ELSE IF \E k \in 1..Len(o.compiled) : RegexSearch(o.compiled[k], url) THEN TRUE
    ELSE TbExtractDomain(url) \in o.blocked_domains

\* what a caller sets up on a blocker before asking it about a url: toggle()
\* or not, whitelist_domain for each of `whitelisted`, block_domain for each
\* of `blocked`
TbPrepared(o, toggled, whitelisted, blocked) ==
    [o EXCEPT !.enabled = IF toggled THEN ~@ ELSE @,
              !.whitelist = @ \cup whitelisted,
              !.blocked_domains = @ \cup blocked]

\* b = TrackerBlocker(); the set-up calls; b.should_block(url)
TbSession(toggled, whitelisted, blocked, url) ==
    /\ focus = "tracker_blocker"
    /\ LET c == TrackerBlockerNew
           call == [op |-> "TrackerBlocker.should_block", url |-> url,
                    toggled |-> toggled, whitelisted |-> whitelisted,
                    blocked |-> blocked]
       IN  IF c.raised # None
           THEN ret' = call @@ [raised |-> c.raised]
           ELSE LET o == TbPrepared(c.obj, toggled, whitelisted, blocked)
                IN  ret' = call @@ [raised |-> None, before |-> o,
                                    result |-> TbShouldBlock(o, url).result,
                                    after |-> TbShouldBlock(o, url).o]
    /\ UNCHANGED AllButRet

\* b = CryptoMinerBlocker(); the set-up calls; b.should_block(url)
CmSession(toggled, whitelisted, blocked, url) ==
    /\ focus = "tracker_blocker"
    /\ LET c == CryptoMinerBlockerNew
           call == [op |-> "CryptoMinerBlocker.should_block", url |-> url,
                    toggled |-> toggled, whitelisted |-> whitelisted,
                    blocked |-> blocked]
       IN  IF c.raised # None
           THEN ret' = call @@ [raised |-> c.raised]
           ELSE LET o == TbPrepared(c.obj, toggled, whitelisted, blocked)
                IN  ret' = call @@ [raised |-> None, before |-> o,
                                    result |-> CmShouldBlock(o, url), after |-> o]
    /\ UNCHANGED AllButRet

(***************************************************************************)
(* src/privacy/cookie_manager.py.  A dict is the sequence of its items in  *)
(* insertion order; the inner dict of a domain is keyed by cookie name.    *)
(***************************************************************************)
\* Cookie.__init__ at time t; expires and created_at are 0 for None
Cookie(name, value, domain, expires, created_at, t) ==
    [name |-> name, value |-> value, domain |-> domain, path |-> "/",
     expires |-> expires, http_only |-> FALSE, secure |-> FALSE,
     same_site |-> "none",
     created_at |-> IF created_at # 0 THEN created_at ELSE t,
     last_accessed |-> created_at]

\* Cookie.to_dict
CookieToDict(c) == c

\* Cookie.from_dict at time t
CookieFromDict(d, t) ==
    [Cookie(d.name, d.value, d.domain, d.expires, d.created_at, t)
        EXCEPT !.path = d.path, !.http_only = d.http_only, !.secure = d.secure,
               !.same_site = d.same_site, !.last_accessed = d.last_accessed]

\* CookieManager._save
CkSaved(m) ==
    [exists |-> TRUE,
     cookies |-> [i \in 1..Len(m.cookies) |->
                    [domain |-> m.cookies[i].domain,
                     cookies |-> [j \in 1..Len(m.cookies[i].cookies) |->
                                    CookieToDict(m.cookies[i].cookies[j])]]],
     blocked_domains |-> m.blocked_domains, allowed_domains |-> m.allowed_domains]

\* CookieManager.__init__ followed by _load at time t: the domains are read
\* in the order of the document, each assigned before the next is read, and
\* from_dict raises KeyError for a cookie without 'name'
CkLoad(f, t) ==
    LET fresh == [cookies |-> << >>, blocked_domains |-> {}, allowed_domains |-> {},
                  auto_delete_enabled |-> FALSE, auto_delete_days |-> 30,
                  third_party_blocking |-> FALSE]
        Read(item) == [domain |-> item.domain,
                       cookies |-> [j \in 1..Len(item.cookies) |->
                                      CookieFromDict(item.cookies[j], t)]]
        bad == FirstIndex([i \in 1..Len(f.cookies) |->
                             FirstWithout(f.cookies[i].cookies, "name") # 0])
    IN  IF ~f.exists \/ ~JsonLoads(f) THEN fresh
        ELSE IF bad # 0
        THEN [fresh EXCEPT !.cookies = [i \in 1..(bad - 1) |-> Read(f.cookies[i])]]
        ELSE [fresh EXCEPT !.cookies = [i \in 1..Len(f.cookies) |-> Read(f.cookies[i])],
                           !.blocked_domains = f.blocked_domains,
                           !.allowed_domains = f.allowed_domains]

\* an assignment that never finds the domain among the keys
CkStoredAsNew(cookies, cookie) ==
    Append(cookies, [domain |-> cookie.domain, cookies |-> <<cookie>>])

\* self.cookies[domain][name] = cookie
CkStored(cookies, cookie) ==
    LET i == FirstIndex([k \in 1..Len(cookies) |-> cookies[k].domain = cookie.domain])
        Put(jar) ==
            LET j == FirstIndex([k \in 1..Len(jar) |-> jar[k].name = cookie.name])
            IN  IF j = 0 THEN Append(jar, cookie) ELSE [jar EXCEPT ![j] = cookie]
    IN  IF i = 0 THEN Append(cookies, [domain |-> cookie.domain, cookies |-> <<cookie>>])
        ELSE [cookies EXCEPT ![i].cookies = Put(@)]

\* CookieManager.is_domain_blocked
CkIsDomainBlocked(m, domain) == domain \in m.blocked_domains

\* the runs of a CookieManager: cookies are set while domains are listed, or
\* cookies age while they are read and swept
CookieFocuses == {"cookies", "cookie_age"}

\* CookieManager.set_cookie(domain, name, value) without keyword arguments
CkSetCookie(domain, name, value) ==
    /\ focus \in CookieFocuses
    /\ IF \/ CkIsDomainBlocked(ck, domain)
          \/ ck.allowed_domains # {} /\ domain \notin ck.allowed_domains
       THEN /\ UNCHANGED <<ck, ckFile>>
            /\ ret' = [op |-> "set_cookie", domain |-> domain, name |-> name,
                       value |-> value, result |-> 0]
       ELSE /\ ck' = [ck EXCEPT !.cookies =
                        CkStored(@, Cookie(name, value, domain, 0, 0, now))]
            /\ ckFile' = CkSaved(ck')
            /\ ret' = [op |-> "set_cookie", domain |-> domain, name |-> name,
                       value |-> value, result |-> 1]
    /\ UNCHANGED CkOthers

\* CookieManager.block_domain
CkBlockDomain(domain) ==
    /\ focus \in CookieFocuses
    /\ ck' = [ck EXCEPT !.blocked_domains = @ \cup {domain}]
    /\ ckFile' = CkSaved(ck')
    /\ ret' = [op |-> "block_domain", domain |-> domain]
    /\ UNCHANGED CkOthers

\* CookieManager.allow_domain / unblock_domain / disallow_domain
CkAllowDomain(domain) ==
    /\ focus \in CookieFocuses
    /\ ck' = [ck EXCEPT !.allowed_domains = @ \cup {domain}]
    /\ ckFile' = CkSaved(ck')
    /\ ret' = [op |-> "allow_domain", domain |-> domain]
    /\ UNCHANGED CkOthers

CkUnblockDomain(domain) ==
    /\ focus \in CookieFocuses
    /\ ck' = [ck EXCEPT !.blocked_domains = @ \ {domain}]
    /\ ckFile' = CkSaved(ck')
    /\ ret' = [op |-> "unblock_domain", domain |-> domain]
    /\ UNCHANGED CkOthers

CkDisallowDomain(domain) ==
    /\ focus \in CookieFocuses
    /\ ck' = [ck EXCEPT !.allowed_domains = @ \ {domain}]
    /\ ckFile' = CkSaved(ck')
    /\ ret' = [op |-> "disallow_domain", domain |-> domain]
    /\ UNCHANGED CkOthers

\* the positions of self.cookies[domain] and of self.cookies[domain][name],
\* 0 if the key is missing
CkDomainIndex(m, domain) ==
    FirstIndex([k \in 1..Len(m.cookies) |-> m.cookies[k].domain = domain])
CkNameIndex(m, domain, name) ==
    LET i == CkDomainIndex(m, domain)
    IN IF i = 0 THEN 0
       ELSE FirstIndex([k \in 1..Len(m.cookies[i].cookies) |->
                           m.cookies[i].cookies[k].name = name])

\* Cookie.is_expired at time t; expires is 0 for None
CookieIsExpired(c, t) == c.expires # 0 /\ c.expires < t

\* CookieManager.get_cookie: a cookie that is found and not expired is marked
\* as read now; nothing is saved
CkGetCookie(domain, name) ==
    /\ focus \in CookieFocuses
    /\ LET i == CkDomainIndex(ck, domain)
           j == CkNameIndex(ck, domain, name)
           found == j # 0 /\ ~CookieIsExpired(ck.cookies[i].cookies[j], now)
       IN /\ ck' = IF found
                   THEN [ck EXCEPT !.cookies[i].cookies[j].last_accessed = now]
                   ELSE ck
          /\ ret' = [op |-> "get_cookie", result |-> IF found THEN 1 ELSE 0]
    /\ UNCHANGED <<ckFile, CkOthers>>

\* CookieManager.delete_cookie: the domain keeps its, maybe empty, dict
CkDeleteCookie(domain, name) ==
    /\ focus \in CookieFocuses
    /\ LET i == CkDomainIndex(ck, domain)
           j == CkNameIndex(ck, domain, name)
       IN IF j # 0
          THEN /\ ck' = [ck EXCEPT !.cookies[i].cookies = RemoveAt(@, j)]
               /\ ckFile' = CkSaved(ck')
               /\ ret' = [op |-> "delete_cookie", result |-> TRUE]
          ELSE /\ UNCHANGED <<ck, ckFile>>
               /\ ret' = [op |-> "delete_cookie", result |-> FALSE]
    /\ UNCHANGED CkOthers

\* the inner loop of delete_older_than over the cookies of one domain:
\* datetime.fromisoformat(None) raises TypeError, and what was deleted
\* before stays deleted
RECURSIVE CkJarSwept(_, _)
CkJarSwept(jar, cutoff) ==
    IF jar = << >> THEN [jar |-> << >>, raised |-> None]
    ELSE IF Head(jar).last_accessed = 0 THEN [jar |-> jar, raised |-> "TypeError"]
    ELSE LET rest == CkJarSwept(Tail(jar), cutoff)
         IN [jar |-> (IF Head(jar).last_accessed < cutoff THEN << >> ELSE <<Head(jar)>>)
                        \o rest.jar,
             raised |-> rest.raised]

\* the outer loop of delete_older_than: a domain left empty is deleted
RECURSIVE CkSwept(_, _)
CkSwept(cookies, cutoff) ==
    IF cookies = << >> THEN [cookies |-> << >>, raised |-> None]
    ELSE LET jar == CkJarSwept(Head(cookies).cookies, cutoff)
             rest == CkSwept(Tail(cookies), cutoff)
         IN IF jar.raised # None
            THEN [cookies |-> <<[Head(cookies) EXCEPT !.cookies = jar.jar]>>
                                 \o Tail(cookies),
                  raised |-> jar.raised]
            ELSE [cookies |-> (IF jar.jar = << >> THEN << >>
                               ELSE <<[Head(cookies) EXCEPT !.cookies = jar.jar]>>)
                                 \o rest.cookies,
                  raised |-> rest.raised]

\* CookieManager.delete_older_than(days) at time t: the manager and the file
\* after the call, and the exception it raised; a day is one tick
CkOlderDeleted(m, f, days, t) ==
    LET swept == CkSwept(m.cookies, t - days)
        m1 == [m EXCEPT !.cookies = swept.cookies]
    IN [m |-> m1, file |-> IF swept.raised = None THEN CkSaved(m1) ELSE f,
        raised |-> swept.raised]

CkDeleteOlderThan(days) ==
    /\ focus \in CookieFocuses
    /\ LET done == CkOlderDeleted(ck, ckFile, days, now)
       IN /\ ck' = done.m
          /\ ckFile' = done.file
          /\ ret' = [op |-> "delete_older_than", days |-> days, raised |-> done.raised]
    /\ UNCHANGED CkOthers

\* CookieManager.enable_auto_delete(days)
CkEnableAutoDelete(days) ==
    /\ focus \in CookieFocuses
    /\ LET done == CkOlderDeleted([ck EXCEPT !.auto_delete_enabled = TRUE,
                                             !.auto_delete_days = days],
                                  ckFile, days, now)
       IN /\ ck' = done.m
          /\ ckFile' = done.file
          /\ ret' = [op |-> "enable_auto_delete", days |-> days, raised |-> done.raised]
    /\ UNCHANGED CkOthers

(***************************************************************************)
(* src/download_manager.py                                                 *)
(***************************************************************************)
DefaultDownloadDir == "~/Downloads/SimpleBrowser"

\* Download.__init__ with the generated id, at time t
Download(id, url, filename, save_path, total_bytes, mime_type, t) ==
    [id |-> id, url |-> url, filename |-> filename, save_path |-> save_path,
     total_bytes |-> total_bytes, downloaded_bytes |-> 0, mime_type |-> mime_type,
     state |-> "pending", created_at |-> t, started_at |-> 0, completed_at |-> 0,
     error_message |-> None, speed |-> 0, progress |-> 0]

\* DownloadManager.__init__ with the default directory
DmNew == [download_dir |-> DefaultDownloadDir, downloads |-> << >>,
          progress_callbacks |-> << >>, completion_callbacks |-> << >>]

\* DownloadManager._notify_progress
DmNotifyProgress(m, download) == Notified(m.progress_callbacks, <<download.id>>)

\* DownloadManager.add_download(url): filename and save_path are None, so
\* the name is the last part of the url, or 'download', and the path is
\* os.path.join(download_dir, filename)
DmAddDownload(id, url) ==
    /\ focus = "download_manager"
    /\ Len(dm.downloads) < MaxDownloads
    /\ LET parts == Split(url, "/")
           last == parts[Len(parts)]
           filename == IF last # EmptyStr THEN last
                       ELSE <<"d", "o", "w", "n", "l", "o", "a", "d">>
           download == Download(id, url, filename,
                                <<dm.download_dir, "/">> \o filename, 0,
                                "application/octet-stream", now)
       IN  /\ dm' = [dm EXCEPT !.downloads = Append(@, download)]
           /\ ret' = [op |-> "DownloadManager.add_download", before |-> dm,
                      raised |-> None, result |-> download,
                      called |-> DmNotifyProgress(dm', download)]
    /\ UNCHANGED DmOthers

\* DownloadManager.on_progress
DmOnProgress(callback) ==
    /\ focus = "download_manager"
    /\ Len(dm.progress_callbacks) < MaxCallbacks
    /\ dm' = [dm EXCEPT !.progress_callbacks = Append(@, callback)]
    /\ ret' = [op |-> "DownloadManager.on_progress"]
    /\ UNCHANGED DmOthers

\* DownloadManager.get_download: the index of the first download with the
\* id, 0 for None
DmGetDownload(m, download_id) ==
    FirstIndex([i \in 1..Len(m.downloads) |-> m.downloads[i].id = download_id])

\* start_download at time t
DmStarted(m, download_id, t) ==
    LET i == DmGetDownload(m, download_id)
    IN IF i = 0 THEN m
       ELSE [m EXCEPT !.downloads[i].state = "downloading",
                      !.downloads[i].started_at = t]

\* a pause_download that does not look at the state
DmPausedFromAnyState(m, download_id) ==
    LET i == DmGetDownload(m, download_id)
    IN IF i = 0 THEN m
       ELSE [m EXCEPT !.downloads[i].state = "paused"]

\* pause_download
DmPaused(m, download_id) ==
    LET i == DmGetDownload(m, download_id)
    IN IF i = 0 \/ m.downloads[i].state # "downloading" THEN m
       ELSE [m EXCEPT !.downloads[i].state = "paused"]

\* resume_download
DmResumed(m, download_id) ==
    LET i == DmGetDownload(m, download_id)
    IN IF i = 0 \/ m.downloads[i].state # "paused" THEN m
       ELSE [m EXCEPT !.downloads[i].state = "downloading"]

\* cancel_download
DmCancelled(m, download_id) ==
    LET i == DmGetDownload(m, download_id)
    IN IF i = 0 THEN m
       ELSE [m EXCEPT !.downloads[i].state = "cancelled"]

DmStartDownload(download_id) ==
    /\ focus = "download_manager"
    /\ dm' = DmStarted(dm, download_id, now)
    /\ ret' = [op |-> "start_download", download_id |-> download_id,
               result |-> (DmGetDownload(dm, download_id) # 0)]
    /\ UNCHANGED DmOthers

DmPauseDownload(download_id) ==
    /\ focus = "download_manager"
    /\ dm' = DmPaused(dm, download_id)
    /\ ret' = [op |-> "pause_download", download_id |-> download_id,
               result |-> (dm' # dm)]
    /\ UNCHANGED DmOthers

DmResumeDownload(download_id) ==
    /\ focus = "download_manager"
    /\ dm' = DmResumed(dm, download_id)
    /\ ret' = [op |-> "resume_download", download_id |-> download_id,
               result |-> (dm' # dm)]
    /\ UNCHANGED DmOthers

DmCancelDownload(download_id) ==
    /\ focus = "download_manager"
    /\ dm' = DmCancelled(dm, download_id)
    /\ ret' = [op |-> "cancel_download", download_id |-> download_id,
               result |-> (DmGetDownload(dm, download_id) # 0)]
    /\ UNCHANGED DmOthers

DmRemoveDownload(download_id) ==
    /\ focus = "download_manager"
    /\ LET i == DmGetDownload(dm, download_id)
       IN /\ dm' = IF i = 0 THEN dm ELSE [dm EXCEPT !.downloads = RemoveAt(@, i)]
          /\ ret' = [op |-> "remove_download", download_id |-> download_id,
                     result |-> (i # 0)]
    /\ UNCHANGED DmOthers

\* clear_completed
DmClearCompleted ==
    /\ focus = "download_manager"
    /\ dm' = [dm EXCEPT !.downloads =
                 SelectSeq(@, LAMBDA d : d.state # "completed")]
    /\ ret' = [op |-> "clear_completed"]
    /\ UNCHANGED DmOthers

(***************************************************************************)
(* src/productivity/pomodoro.py.  Lines 219-220 of the file are not Python *)
(* (a list comprehension that begins with `in weekly_sessions`), so the    *)
(* module does not compile and importing it raises SyntaxError.            *)
(***************************************************************************)
\* current_session = None; a pause_time or start_time of 0 is None too
NoSession ==
    [session_type |-> None, duration |-> 0, start_time |-> 0, end_time |-> 0,
     completed |-> FALSE]

\* from productivity.pomodoro import PomodoroTimer; PomodoroTimer()
PomodoroTimerNew ==
    [raised |-> "SyntaxError",
     obj |-> [work_duration |-> 25 * 60, short_break_duration |-> 5 * 60,
              long_break_duration |-> 15 * 60, sessions_until_long_break |-> 4,
              state |-> "idle", current_session |-> NoSession, session_count |-> 0,
              total_sessions_completed |-> 0, running |-> FALSE, paused |-> FALSE,
              pause_time |-> 0, total_paused_time |-> 0,
              start_callbacks |-> << >>, complete_callbacks |-> << >>,
              tick_callbacks |-> << >>, sessions_history |-> << >>]]

\* PomodoroTimer._notify_start; ANDROID_VIBRATE is False off the device
PtNotifyStart(o) == Notified(o.start_callbacks, <<o.state>>)

\* PomodoroTimer.start_work at time t
PtStartWork(o, t) ==
    [o EXCEPT !.current_session =
                  [session_type |-> "work", duration |-> o.work_duration,
                   start_time |-> t, end_time |-> t + o.work_duration,
                   completed |-> FALSE],
              !.state = "work", !.running = TRUE, !.paused = FALSE]

\* PomodoroSession(session_type, duration) and its start() at time t
PomodoroSession(session_type, duration, t) ==
    [session_type |-> session_type, duration |-> duration,
     start_time |-> t, end_time |-> t + duration, completed |-> FALSE]

\* PomodoroSession.get_remaining_time at time t
PtRemainingTime(session, t) ==
    IF session.start_time = 0 THEN session.duration
    ELSE IF session.end_time - t > 0 THEN session.end_time - t ELSE 0

\* PomodoroTimer.start_short_break / start_long_break at time t
PtStartShortBreak(o, t) ==
    [o EXCEPT !.current_session =
                  PomodoroSession("short_break", o.short_break_duration, t),
              !.state = "short_break", !.running = TRUE, !.paused = FALSE]

PtStartLongBreak(o, t) ==
    [o EXCEPT !.current_session =
                  PomodoroSession("long_break", o.long_break_duration, t),
              !.state = "long_break", !.running = TRUE, !.paused = FALSE]

\* PomodoroTimer.pause at time t
PtPause(o, t) ==
    IF o.running /\ ~o.paused
    THEN [o EXCEPT !.paused = TRUE, !.pause_time = t, !.state = "paused"]
    ELSE o

\* PomodoroTimer.resume at time t: each branch of the if chain assigns to
\* state the value it already has, and no branch is for PAUSED
PtResume(o, t) ==
    IF o.paused /\ o.pause_time # 0
    THEN [o EXCEPT !.total_paused_time = @ + (t - o.pause_time),
                   !.paused = FALSE, !.pause_time = 0]
    ELSE o

\* PomodoroTimer.stop
PtStop(o) ==
    [o EXCEPT !.running = FALSE, !.paused = FALSE, !.state = "idle",
              !.current_session = NoSession, !.total_paused_time = 0]

\* PomodoroTimer._complete_session at time t
PtCompleteSession(o, t) ==
    LET work == o.current_session.session_type = "work"
        o1 == [o EXCEPT !.current_session.completed = TRUE,
                        !.sessions_history =
                            Append(@, [type |-> o.current_session.session_type,
                                       duration |-> o.current_session.duration,
                                       completed_at |-> t]),
                        !.session_count = IF work THEN @ + 1 ELSE @,
                        !.total_sessions_completed = IF work THEN @ + 1 ELSE @]
    IN IF o.current_session = NoSession THEN o
       ELSE IF ~work THEN PtStartWork(o1, t)
       ELSE IF o1.session_count >= o1.sessions_until_long_break
            THEN [PtStartLongBreak(o1, t) EXCEPT !.session_count = 0]
            ELSE PtStartShortBreak(o1, t)

\* PomodoroTimer.skip at time t
PtSkip(o, t) == IF o.current_session # NoSession THEN PtCompleteSession(o, t) ELSE o

\* PomodoroTimer.tick at time t: the timer after the call and the value returned
PtTick(o, t) ==
    IF ~o.running \/ o.paused \/ o.current_session = NoSession
    THEN [o |-> o, result |-> FALSE]
    ELSE IF PtRemainingTime(o.current_session, t) <= 0
         THEN [o |-> PtCompleteSession(o, t), result |-> TRUE]
         ELSE [o |-> o, result |-> TRUE]

\* one call on the timer; "sleep" lets a work session's duration pass.  The
\* record holds the timer after the call, the time, and tick's value.
PtCall(s, call) ==
    CASE call = "start_work" -> [s EXCEPT !.o = PtStartWork(s.o, s.t), !.result = None]
      [] call = "pause" -> [s EXCEPT !.o = PtPause(s.o, s.t), !.result = None]
      [] call = "resume" -> [s EXCEPT !.o = PtResume(s.o, s.t), !.result = None]
      [] call = "stop" -> [s EXCEPT !.o = PtStop(s.o), !.result = None]
      [] call = "skip" -> [s EXCEPT !.o = PtSkip(s.o, s.t), !.result = None]
      [] call = "tick" -> [s EXCEPT !.o = PtTick(s.o, s.t).o,
                                    !.result = IF PtTick(s.o, s.t).result
                                               THEN "True" ELSE "False"]
      [] OTHER -> [s EXCEPT !.t = @ + s.o.work_duration, !.result = None]

\* the records after each of the calls, made one after the other
RECURSIVE PtRun(_, _)
PtRun(s, calls) ==
    IF calls = << >> THEN << >>
    ELSE <<PtCall(s, Head(calls))>> \o PtRun(PtCall(s, Head(calls)), Tail(calls))

\* t = PomodoroTimer(); t.set_sessions_until_long_break(n); t.start_work();
\* then the calls
PtCalls(n, calls) ==
    /\ focus = "pomodoro"
    /\ LET c == PomodoroTimerNew
           call == [op |-> "PomodoroTimer.calls", n |-> n, calls |-> calls]
       IN  IF c.raised # None
           THEN ret' = call @@ [raised |-> c.raised]
           ELSE LET o == [c.obj EXCEPT !.sessions_until_long_break = n]
                    first == [o |-> PtStartWork(o, now), t |-> now, result |-> None]
                IN  ret' = call @@ [raised |-> None,
                                    trace |-> <<first>> \o PtRun(first, calls)]
    /\ UNCHANGED AllButRet

\* t = PomodoroTimer(); t.on_start(c) for c in callbacks; t.start_work()
PtSession(callbacks) ==
    /\ focus = "pomodoro"
    /\ LET c == PomodoroTimerNew
           call == [op |-> "PomodoroTimer.start_work", callbacks |-> callbacks]
       IN  IF c.raised # None
           THEN ret' = call @@ [raised |-> c.raised]
           ELSE LET o == [c.obj EXCEPT !.start_callbacks = callbacks]
                IN  ret' = call @@ [raised |-> None, after |-> PtStartWork(o, now),
                                    called |-> PtNotifyStart(PtStartWork(o, now))]
    /\ UNCHANGED AllButRet

(***************************************************************************)
(* src/ios/main.py: MediaManager.  download_video appends an entry and     *)
(* starts a thread that runs _download_file; the thread is at "transfer"   *)
(* until requests.get and the writing of the file end, then at "mark"      *)
(* while its for loop runs over self.downloads, then "done".  The threads  *)
(* take no lock; one step of a thread is one iteration of its loop.        *)
(***************************************************************************)
MmNew == [screenshots |-> << >>, downloads |-> << >>]

\* MediaManager.download_video
MmDownloadVideo(url, filename) ==
    /\ focus = "media"
    /\ Len(mm.downloads) < MaxDownloads
    /\ mm' = [mm EXCEPT !.downloads =
                 Append(@, [url |-> url, filename |-> filename,
                            status |-> "downloading"])]
    /\ mmThreads' = Append(mmThreads, [url |-> url, filename |-> filename,
                                       pc |-> "transfer", outcome |-> None, i |-> 0])
    /\ ret' = [op |-> "download_video", url |-> url, filename |-> filename]
    /\ UNCHANGED MmOthers

\* _download_file of thread k: the try block reaches its for loop
\* ("completed") or raises, and the except clause starts its loop ("failed")
MmTransferEnds(k, outcome) ==
    /\ focus = "media"
    /\ k \in 1..Len(mmThreads)
    /\ mmThreads[k].pc = "transfer"
    /\ mmThreads' = [mmThreads EXCEPT ![k].pc = "mark", ![k].outcome = outcome,
                                      ![k].i = 1]
    /\ ret' = [op |-> "transfer", thread |-> k]
    /\ UNCHANGED <<mm, MmOthers>>

\* if d['filename'] == filename, with a condition that is always true
MmMarksAnyFile(d, filename) == TRUE

\* if d['filename'] == filename
MmMarks(d, filename) == d.filename = filename

\* _download_file of thread k: one iteration of `for d in self.downloads`,
\* or the end of the loop
MmMarkStep(k) ==
    /\ focus = "media"
    /\ k \in 1..Len(mmThreads)
    /\ mmThreads[k].pc = "mark"
    /\ LET th == mmThreads[k]
       IN  IF th.i > Len(mm.downloads)
           THEN /\ mmThreads' = [mmThreads EXCEPT ![k].pc = "done"]
                /\ mm' = mm
           ELSE /\ mmThreads' = [mmThreads EXCEPT ![k].i = @ + 1]
                /\ mm' = IF MmMarks(mm.downloads[th.i], th.filename)
                         THEN [mm EXCEPT !.downloads[th.i].status = th.outcome]
                         ELSE mm
    /\ ret' = [op |-> "mark", thread |-> k]
    /\ UNCHANGED MmOthers

(***************************************************************************)
(* src/privacy/vpn_proxy.py.  What a call of check_latency meets is its    *)
(* outcome: whether the socket connects, the latency measured and the time *)
(* read.  check_all_proxies(threaded=True) starts one thread per proxy and *)
(* joins them; a step of a thread is one read or write of a field, so      *)
(* `self.failures += 1` is a read followed by a write.                     *)
(***************************************************************************)
\* ProxyServer.__init__ with the default protocol, country and credentials
ProxyServer(host, port) ==
    [host |-> host, port |-> port, protocol |-> "http", country |-> EmptyStr,
     username |-> EmptyStr, password |-> EmptyStr, latency |-> 0,
     last_checked |-> 0, working |-> TRUE, failures |-> 0]

\* ProxyServer.to_dict: failures is not written
ProxyServerToDict(p) ==
    [host |-> p.host, port |-> p.port, protocol |-> p.protocol,
     country |-> p.country, username |-> p.username, password |-> p.password,
     latency |-> p.latency, last_checked |-> p.last_checked, working |-> p.working]

\* ProxyServer.check_latency run to its end without interruption
PxCheckLatency(p, outcome) ==
    IF outcome.connects
    THEN [p EXCEPT !.latency = outcome.latency, !.last_checked = outcome.at,
                   !.working = TRUE]
    ELSE [p EXCEPT !.working = FALSE, !.failures = @ + 1]

\* ProxyManager._save
PxSaved(m) ==
    [exists |-> TRUE,
     proxies |-> [i \in 1..Len(m.proxies) |-> ProxyServerToDict(m.proxies[i])]]

\* ProxyManager.__init__ over an empty data directory.  current_proxy refers
\* to an object: it is the position of that object in proxies when the
\* object is in the list, and 0 otherwise; current_detached then holds the
\* object, and is empty when current_proxy is None or in the list
PxNew == [proxies |-> << >>, current_proxy |-> 0, current_detached |-> << >>,
          enabled |-> FALSE,
          rotation_mode |-> "sequential", auto_rotate |-> FALSE,
          rotate_interval |-> 300, last_rotation |-> 0]

\* no call of check_all_proxies is in progress
PxNoCall == [active |-> FALSE]

\* the runs of a ProxyManager: the latency checks, and the connection
ProxyFocuses == {"proxy", "connection"}

\* ProxyManager.add_proxy(host, port)
PxAddProxy(host, port) ==
    /\ focus \in ProxyFocuses
    /\ ~pxCall.active
    /\ Len(px.proxies) < MaxProxies
    /\ px' = [px EXCEPT !.proxies = Append(@, ProxyServer(host, port))]
    /\ pxFile' = PxSaved(px')
    /\ ret' = [op |-> "add_proxy", host |-> host, port |-> port]
    /\ UNCHANGED <<pxCall, PxOthers>>

\* what check_all_proxies(threaded=False) leaves: check_latency of every
\* proxy in list order
PxCheckedSequentially(m, outcomes) ==
    [m EXCEPT !.proxies = [i \in 1..Len(@) |-> PxCheckLatency(@[i], outcomes[i])]]

\* check_all_proxies(threaded=False)
PxCheckAllSequential(outcomes) ==
    /\ focus \in ProxyFocuses
    /\ ~pxCall.active
    /\ DOMAIN outcomes = 1..Len(px.proxies)
    /\ \A i \in 1..Len(px.proxies) : px.proxies[i].failures \in FailuresBeforeCheck
    /\ px' = PxCheckedSequentially(px, outcomes)
    /\ pxFile' = PxSaved(px')
    /\ ret' = [op |-> "check_all_proxies", threaded |-> FALSE, before |-> px,
               outcomes |-> outcomes]
    /\ UNCHANGED <<pxCall, PxOthers>>

\* a thread list in which every thread is given the first proxy
PxThreadProxyFirst(k) == 1

\* threading.Thread(target=check, args=(p,)) for p in self.proxies: the
\* k-th thread is given the k-th proxy
PxThreadProxy(k) == k

\* check_all_proxies(threaded=True) up to the end of `for t in threads:
\* t.start()`
PxCheckAllStart(outcomes) ==
    /\ focus = "proxy"
    /\ ~pxCall.active
    /\ DOMAIN outcomes = 1..Len(px.proxies)
    /\ \A i \in 1..Len(px.proxies) : px.proxies[i].failures \in FailuresBeforeCheck
    /\ pxCall' = [active |-> TRUE, before |-> px, outcomes |-> outcomes,
                  finished |-> << >>,
                  threads |-> [k \in 1..Len(px.proxies) |->
                                 [proxy |-> PxThreadProxy(k), pc |-> "connect",
                                  read |-> 0]]]
    /\ ret' = [op |-> "start"]
    /\ UNCHANGED <<px, pxFile, PxOthers>>

\* one step of check_latency in thread k
PxThreadStep(k) ==
    /\ focus = "proxy"
    /\ pxCall.active
    /\ k \in 1..Len(pxCall.threads)
    /\ pxCall.threads[k].pc # "done"
    /\ LET th == pxCall.threads[k]
           p == th.proxy
           outcome == pxCall.outcomes[k]
           Goto(pc) == [pxCall EXCEPT !.threads[k].pc = pc]
           End == [pxCall EXCEPT !.threads[k].pc = "done",
                                 !.finished = Append(@, k)]
       IN  CASE th.pc = "connect" ->
                  /\ pxCall' = Goto(IF outcome.connects THEN "latency" ELSE "working")
                  /\ px' = px
             [] th.pc = "latency" ->
                  /\ px' = [px EXCEPT !.proxies[p].latency = outcome.latency]
                  /\ pxCall' = Goto("last_checked")
             [] th.pc = "last_checked" ->
                  /\ px' = [px EXCEPT !.proxies[p].last_checked = outcome.at]
                  /\ pxCall' = Goto("working_true")
             [] th.pc = "working_true" ->
                  /\ px' = [px EXCEPT !.proxies[p].working = TRUE]
                  /\ pxCall' = End
             [] th.pc = "working" ->
                  /\ px' = [px EXCEPT !.proxies[p].working = FALSE]
                  /\ pxCall' = Goto("read_failures")
             [] th.pc = "read_failures" ->
                  /\ px' = px
                  /\ pxCall' = [Goto("write_failures") EXCEPT
                                   !.threads[k].read = px.proxies[p].failures]
             [] th.pc = "write_failures" ->
                  /\ px' = [px EXCEPT !.proxies[p].failures = th.read + 1]
                  /\ pxCall' = End
    /\ ret' = [op |-> "step", thread |-> k]
    /\ UNCHANGED <<pxFile, PxOthers>>

\* check_all_proxies(threaded=True) from the end of `for t in threads:
\* t.join()`: every thread has ended, and _save runs
PxCheckAllJoin ==
    /\ focus = "proxy"
    /\ pxCall.active
    /\ \A k \in 1..Len(pxCall.threads) : pxCall.threads[k].pc = "done"
    /\ pxFile' = PxSaved(px)
    /\ pxCall' = PxNoCall
    /\ ret' = [op |-> "check_all_proxies", threaded |-> TRUE,
               before |-> pxCall.before, outcomes |-> pxCall.outcomes,
               finished |-> pxCall.finished]
    /\ UNCHANGED <<px, PxOthers>>

\* `self.current_proxy` is None
PxCurrentIsNone(m) == m.current_proxy = 0 /\ m.current_detached = << >>

\* the positions in proxies that remove_proxy(host, port) keeps
PxKeptPositions(m, host, port) ==
    SelectSeq([i \in 1..Len(m.proxies) |-> i],
              LAMBDA i : ~(m.proxies[i].host = host /\ m.proxies[i].port = port))

\* what remove_proxy(host, port) leaves: proxies is rebuilt without the
\* proxies of that host and port; current_proxy and enabled are not assigned,
\* so current_proxy goes on referring to the object it referred to
PxRemoved(m, host, port) ==
    LET kept == PxKeptPositions(m, host, port)
        cur == m.current_proxy
        gone == cur # 0 /\ ~InSeq(cur, kept)
    IN  [m EXCEPT !.proxies = [k \in 1..Len(kept) |-> m.proxies[kept[k]]],
                  !.current_proxy =
                      IF cur = 0 \/ gone THEN 0
                      ELSE CHOOSE k \in 1..Len(kept) : kept[k] = cur,
                  !.current_detached = IF gone THEN <<m.proxies[cur]>> ELSE @]

\* ProxyManager.remove_proxy(host, port)
PxRemoveProxy(host, port) ==
    /\ focus = "connection"
    /\ ~pxCall.active
    /\ px' = PxRemoved(px, host, port)
    /\ pxFile' = IF Len(px'.proxies) < Len(px.proxies) THEN PxSaved(px') ELSE pxFile
    /\ ret' = [op |-> "remove_proxy",
               value |-> Len(px'.proxies) < Len(px.proxies)]
    /\ UNCHANGED <<pxCall, PxOthers>>

\* ProxyManager.get_working_proxies, as positions in proxies
PxGetWorkingProxies(m) ==
    SelectSeq([i \in 1..Len(m.proxies) |-> i], LAMBDA i : m.proxies[i].working)

\* ProxyManager.select_best_proxy: min(working, key=latency) is the first
\* working proxy of the least latency; 0 is None
PxSelectBestProxy(m) ==
    LET working == PxGetWorkingProxies(m)
        Latency(k) == m.proxies[working[k]].latency
    IN  IF working = << >> THEN 0
        ELSE working[CHOOSE k \in 1..Len(working) :
                         /\ \A j \in 1..Len(working) : Latency(k) <= Latency(j)
                         /\ \A j \in 1..(k - 1) : Latency(j) > Latency(k)]

\* ProxyManager.select_random_proxy: what random.choice(working) can return,
\* None (0) when no proxy is working
PxSelectRandomProxy(m) ==
    LET working == PxGetWorkingProxies(m)
    IN  IF working = << >> THEN {0}
        ELSE {working[k] : k \in 1..Len(working)}

\* what connect(proxy) leaves; proxy is given like current_proxy: at is its
\* position in proxies, object holds it when it is not in the list, and
\* None is at = 0 with no object
PxConnected(m, proxy, t) ==
    LET chosen == IF proxy.at # 0 \/ proxy.object # << >>
                  THEN [m EXCEPT !.current_proxy = proxy.at,
                                 !.current_detached = proxy.object]
                  ELSE [m EXCEPT !.current_proxy = PxSelectBestProxy(m),
                                 !.current_detached = << >>]
    IN  IF PxCurrentIsNone(chosen) THEN chosen
        ELSE [chosen EXCEPT !.enabled = TRUE, !.last_rotation = t]

\* ProxyManager.connect(proxy)
PxConnect(proxy) ==
    /\ focus = "connection"
    /\ ~pxCall.active
    /\ proxy.at \in 0..Len(px.proxies)
    /\ px' = PxConnected(px, proxy, now)
    /\ ret' = [op |-> "connect", value |-> None]
    /\ UNCHANGED <<pxFile, pxCall, PxOthers>>

\* ProxyManager.disconnect
PxDisconnect ==
    /\ focus = "connection"
    /\ ~pxCall.active
    /\ px' = [px EXCEPT !.current_proxy = 0, !.current_detached = << >>,
                        !.enabled = FALSE]
    /\ ret' = [op |-> "disconnect", value |-> None]
    /\ UNCHANGED <<pxFile, pxCall, PxOthers>>

\* what rotate() leaves when random.choice returns `choice`.  In the
\* sequential mode working.index(self.current_proxy) raises ValueError for a
\* proxy that is not working or not in the list, and the bare except takes
\* working[0]; the other modes assign what select_*_proxy returns, None
\* included
PxRotated(m, choice, t) ==
    LET working == PxGetWorkingProxies(m)
        idx == FirstIndex([k \in 1..Len(working) |->
                              working[k] = m.current_proxy])
    IN  IF m.rotation_mode = "sequential"
        THEN IF working = << >> THEN m
             ELSE [m EXCEPT !.current_proxy =
                                IF PxCurrentIsNone(m) \/ idx = 0 THEN working[1]
                                ELSE working[(idx % Len(working)) + 1],
                            !.current_detached = << >>,
                            !.last_rotation = t]
        ELSE IF m.rotation_mode = "random"
        THEN [m EXCEPT !.current_proxy = choice, !.current_detached = << >>,
                       !.last_rotation = t]
        ELSE IF m.rotation_mode = "best"
        THEN [m EXCEPT !.current_proxy = PxSelectBestProxy(m),
                       !.current_detached = << >>, !.last_rotation = t]
        ELSE [m EXCEPT !.last_rotation = t]

\* ProxyManager.rotate
PxRotate(choice) ==
    /\ focus = "connection"
    /\ ~pxCall.active
    /\ choice \in IF px.rotation_mode = "random" THEN PxSelectRandomProxy(px)
                  ELSE {0}
    /\ px' = PxRotated(px, choice, now)
    /\ ret' = [op |-> "rotate", value |-> None]
    /\ UNCHANGED <<pxFile, pxCall, PxOthers>>

\* ProxyManager.set_rotation_mode(mode)
PxSetRotationMode(mode) ==
    /\ focus = "connection"
    /\ ~pxCall.active
    /\ px' = IF mode \in {"sequential", "random", "best"}
             THEN [px EXCEPT !.rotation_mode = mode]
             ELSE px
    /\ ret' = [op |-> "set_rotation_mode", value |-> None]
    /\ UNCHANGED <<pxFile, pxCall, PxOthers>>

(***************************************************************************)
(* src/smart/translator.py                                                 *)
(***************************************************************************)
TranslatorHistoryKept == 100    \* translate: self.history[:100]
TranslatorHistorySaved == 50    \* _save: self.history[:50]

\* ord(c) of the characters the runs use; a character outside ASCII is named
\* by its code point, and the ASCII characters, none of which lies in a range
\* that _detect_language tests, are not told apart
CodePoint(c) ==
    CASE c = "U+044F" -> 1103
      [] c = "U+0454" -> 1108
      [] c = "U+3042" -> 12354
      [] c = "U+4E2D" -> 20013
      [] c = "U+AC00" -> 44032
      [] OTHER -> 97

\* Translator._detect_language; 'U+0454' is one of the letters that tell
\* Ukrainian from Russian
TrDetectLanguage(text) ==
    LET In(lo, hi) == {i \in 1..Len(text) : lo <= CodePoint(text[i]) /\ CodePoint(text[i]) <= hi}
        cyrillic == In(1024, 1279)
        cjk == In(19968, 40959) \cup In(12352, 12447) \cup In(12448, 12543)
        korean == In(44032, 55215)
    IN  IF 10 * Cardinality(cyrillic) > 3 * Len(text)
        THEN IF \E i \in 1..Len(text) : text[i] = "U+0454" THEN "uk" ELSE "ru"
        ELSE IF cjk # {}
        THEN IF \E i \in cjk : CodePoint(text[i]) > 12288 THEN "zh" ELSE "ja"
        ELSE IF korean # {} THEN "ko"
        ELSE "en"

\* lang_names.get(code, code)
TrLangName(code) ==
    CASE code = "en" -> "English" [] code = "ru" -> "Russian"
      [] code = "uk" -> "Ukrainian" [] code = "es" -> "Spanish"
      [] code = "fr" -> "French" [] code = "de" -> "German"
      [] code = "it" -> "Italian" [] code = "pt" -> "Portuguese"
      [] code = "zh" -> "Chinese" [] code = "ja" -> "Japanese"
      [] code = "ko" -> "Korean" [] OTHER -> code

\* Translator._translate_text: f"[{target_name}] {text}", the name of the
\* language standing as one element of the str
TrTranslateText(text, source, target) ==
    LET src == IF source = "auto" THEN TrDetectLanguage(text) ELSE source
    IN  IF src = target THEN text
        ELSE <<"[", TrLangName(target), "]", " ">> \o text

\* TranslationResult.__init__
TranslationResult(original, translated, source_lang, target_lang) ==
    [original |-> original, translated |-> translated, source_lang |-> source_lang,
     target_lang |-> target_lang, timestamp |-> None]

\* TranslationResult.to_dict
TranslationResultToDict(r) ==
    [original |-> r.original, translated |-> r.translated,
     source_lang |-> r.source_lang, target_lang |-> r.target_lang]

\* Translator._save
TrSaved(m) ==
    LET kept == Take(m.history, TranslatorHistorySaved)
    IN  [exists |-> TRUE,
         history |-> [i \in 1..Len(kept) |-> TranslationResultToDict(kept[i])],
         favorites |-> [i \in 1..Len(m.favorites) |-> TranslationResultToDict(m.favorites[i])]]

\* Translator.__init__ followed by _load; the table of languages is left out
TrLoad(f) ==
    LET Read(d) == TranslationResult(d.original, d.translated, d.source_lang, d.target_lang)
    IN  [source_lang |-> "auto", target_lang |-> "en",
         history |-> IF f.exists THEN [i \in 1..Len(f.history) |-> Read(f.history[i])]
                     ELSE << >>,
         favorites |-> IF f.exists THEN [i \in 1..Len(f.favorites) |-> Read(f.favorites[i])]
                       ELSE << >>]

\* Translator.translate(text, source, target); target is None for the default
TrTranslate(text, source, target) ==
    /\ focus = "translator"
    /\ IF text = EmptyStr
       THEN /\ UNCHANGED <<tr, trFile>>
            /\ ret' = [op |-> "translate", text |-> text, result |-> 0]
       ELSE LET to == IF target = None THEN tr.target_lang ELSE target
                result == TranslationResult(text, TrTranslateText(text, source, to),
                                            source, to)
            IN  /\ tr' = [tr EXCEPT !.history =
                                Take(<<result>> \o @, TranslatorHistoryKept)]
                /\ trFile' = TrSaved(tr')
                /\ ret' = [op |-> "translate", text |-> text, result |-> 1]
    /\ UNCHANGED TrOthers

\* Translator.clear_history
TrClearHistory ==
    /\ focus = "translator"
    /\ tr' = [tr EXCEPT !.history = << >>]
    /\ trFile' = TrSaved(tr')
    /\ ret' = [op |-> "clear_history"]
    /\ UNCHANGED TrOthers

(***************************************************************************)
(* tabs.py                                                                 *)
(***************************************************************************)
\* self.max_tabs = 50
DefaultMaxTabs == 50

\* str(uuid.uuid4()): a value no object holds yet.  Ids are only compared for
\* equality, so the n-th value is written n and the least unused one is taken.
\* 0 stands for None where an id may be None.
FreshUuid(used) ==
    CHOOSE n \in 1..(Cardinality(used) + 1) :
        n \notin used /\ \A k \in 1..(n - 1) : k \in used

\* Tab.__init__
Tab(id, url, title, favicon, t) ==
    [id |-> id, url |-> url, title |-> title, favicon |-> favicon,
     is_pinned |-> FALSE, created_at |-> t, last_active |-> t,
     screenshot |-> None, is_loading |-> FALSE, scroll_position |-> 0]

\* TabGroup.__init__
TabGroup(id, name, color, t) ==
    [id |-> id, name |-> name, color |-> color, tab_ids |-> << >>, created_at |-> t]

\* TabGroup.add_tab / TabGroup.remove_tab
TabGroupAddTab(g, tab_id) ==
    IF InSeq(tab_id, g.tab_ids) THEN g
    ELSE [g EXCEPT !.tab_ids = Append(@, tab_id)]

TabGroupRemoveTab(g, tab_id) ==
    LET i == FirstIndex([k \in 1..Len(g.tab_ids) |-> g.tab_ids[k] = tab_id])
    IN IF i = 0 THEN g ELSE [g EXCEPT !.tab_ids = RemoveAt(@, i)]

\* TabManager.__init__
TmNew ==
    [tabs |-> << >>, active_tab_id |-> 0, groups |-> << >>,
     max_tabs |-> DefaultMaxTabs]

\* a run with pinned tabs and no groups, or with groups and no pinned tabs
TabFocuses == {"tabs", "tab_groups"}

\* the ids of the open tabs, the ids the groups hold, and every id in use
TmTabIds(m) == {m.tabs[i].id : i \in 1..Len(m.tabs)}
TmGroupedIds(m) ==
    UNION {{m.groups[g].tab_ids[k] : k \in 1..Len(m.groups[g].tab_ids)} :
           g \in 1..Len(m.groups)}
TmUsedIds(m) ==
    TmTabIds(m) \cup TmGroupedIds(m) \cup {m.groups[g].id : g \in 1..Len(m.groups)}
        \cup {m.active_tab_id}

\* get_tab: the index of the first tab with the id, 0 for None
TmGetTab(m, tab_id) ==
    FirstIndex([i \in 1..Len(m.tabs) |-> m.tabs[i].id = tab_id])

\* get_active_tab: the index of the active tab, 0 for None
TmGetActiveTab(m) ==
    IF m.active_tab_id = 0 THEN 0 ELSE TmGetTab(m, m.active_tab_id)

\* the index of the first group with the id, 0 if there is none
TmGetGroup(m, group_id) ==
    FirstIndex([g \in 1..Len(m.groups) |-> m.groups[g].id = group_id])

\* get_pinned_tabs
RECURSIVE TmPinned(_)
TmPinned(tabs) ==
    IF tabs = << >> THEN << >>
    ELSE (IF Head(tabs).is_pinned THEN <<Head(tabs)>> ELSE << >>)
            \o TmPinned(Tail(tabs))

\* close_inactive_tabs
TmInactiveClosed(m) ==
    LET active == TmGetActiveTab(m)
    IN IF active # 0 THEN [m EXCEPT !.tabs = <<m.tabs[active]>>] ELSE m

\* create_tab, the new Tab given the id `id`
TmCreated(m, id, url, title, favicon, activate, t) ==
    LET m1 == IF Len(m.tabs) >= m.max_tabs THEN TmInactiveClosed(m) ELSE m
        tab == Tab(id, url, title, favicon, t)
    IN [m1 EXCEPT !.tabs = Append(@, tab),
                  !.active_tab_id =
                      IF activate \/ m1.active_tab_id = 0 THEN id ELSE @]

\* a close_tab that also takes the id out of every group
TmClosedAndUngrouped(m, tab_id) ==
    LET i == TmGetTab(m, tab_id)
        left == RemoveAt(m.tabs, i)
    IN IF i = 0 THEN m
       ELSE [m EXCEPT !.tabs = left,
                      !.groups = [g \in 1..Len(m.groups) |->
                                     TabGroupRemoveTab(m.groups[g], tab_id)],
                      !.active_tab_id =
                          IF m.active_tab_id # tab_id THEN @
                          ELSE IF i > 1 THEN left[i - 1].id
                          ELSE IF left # << >> THEN left[1].id
                          ELSE 0]

\* close_tab
TmClosed(m, tab_id) ==
    LET i == TmGetTab(m, tab_id)
        left == RemoveAt(m.tabs, i)
    IN IF i = 0 THEN m
       ELSE [m EXCEPT !.tabs = left,
                      !.active_tab_id =
                          IF m.active_tab_id # tab_id THEN @
                          ELSE IF i > 1 THEN left[i - 1].id
                          ELSE IF left # << >> THEN left[1].id
                          ELSE 0]

\* a close_all_tabs that leaves active_tab_id as it is
TmAllClosedKeepsActive(m, keep_pinned) ==
    [m EXCEPT !.tabs = IF keep_pinned THEN TmPinned(m.tabs) ELSE << >>]

\* close_all_tabs
TmAllClosed(m, keep_pinned) ==
    [m EXCEPT !.tabs = IF keep_pinned THEN TmPinned(m.tabs) ELSE << >>,
              !.active_tab_id = 0]

\* move_tab: new_index counts from 0
TmMoved(m, tab_id, new_index) ==
    LET i == TmGetTab(m, tab_id)
        left == RemoveAt(m.tabs, i)
    IN IF i # 0 /\ 0 <= new_index /\ new_index < Len(m.tabs)
       THEN [m EXCEPT !.tabs = SubSeq(left, 1, new_index) \o <<m.tabs[i]>>
                                   \o SubSeq(left, new_index + 1, Len(left))]
       ELSE m

\* close_tab for each of the ids, in order
RECURSIVE TmEachClosed(_, _)
TmEachClosed(m, ids) ==
    IF ids = << >> THEN m ELSE TmEachClosed(TmClosed(m, Head(ids)), Tail(ids))

\* close_group_tabs
TmGroupTabsClosed(m, group_id) ==
    LET g == TmGetGroup(m, group_id)
        m1 == TmEachClosed(m, m.groups[g].tab_ids)
    IN IF g = 0 THEN m ELSE [m1 EXCEPT !.groups[g].tab_ids = << >>]

TmCreateTab(url, activate) ==
    /\ focus \in TabFocuses
    /\ LET id == FreshUuid(TmUsedIds(tm))
       IN /\ tm' = TmCreated(tm, id, url, "New Tab", "", activate, now)
          /\ ret' = [op |-> "create_tab", value |-> id]
    /\ UNCHANGED TmOthers

TmCloseTab(tab_id) ==
    /\ focus \in TabFocuses
    /\ tm' = TmClosed(tm, tab_id)
    /\ ret' = [op |-> "close_tab", value |-> (TmGetTab(tm, tab_id) # 0)]
    /\ UNCHANGED TmOthers

TmSetActiveTab(tab_id) ==
    /\ focus \in TabFocuses
    /\ LET i == TmGetTab(tm, tab_id)
       IN /\ tm' = IF i = 0 THEN tm
                   ELSE [tm EXCEPT !.active_tab_id = tab_id,
                                   !.tabs[i].last_active = now]
          /\ ret' = [op |-> "set_active_tab", value |-> (i # 0)]
    /\ UNCHANGED TmOthers

\* pin_tab (pinned = TRUE) and unpin_tab (pinned = FALSE)
TmPinTab(tab_id, pinned) ==
    /\ focus \in TabFocuses
    /\ LET i == TmGetTab(tm, tab_id)
       IN /\ tm' = IF i = 0 THEN tm ELSE [tm EXCEPT !.tabs[i].is_pinned = pinned]
          /\ ret' = [op |-> IF pinned THEN "pin_tab" ELSE "unpin_tab",
                     value |-> (i # 0)]
    /\ UNCHANGED TmOthers

TmDuplicateTab(tab_id) ==
    /\ focus \in TabFocuses
    /\ LET i == TmGetTab(tm, tab_id)
           id == FreshUuid(TmUsedIds(tm))
       IN /\ tm' = IF i = 0 THEN tm
                   ELSE TmCreated(tm, id, tm.tabs[i].url, tm.tabs[i].title,
                                  tm.tabs[i].favicon, TRUE, now)
          /\ ret' = [op |-> "duplicate_tab", value |-> IF i = 0 THEN 0 ELSE id]
    /\ UNCHANGED TmOthers

TmMoveTab(tab_id, new_index) ==
    /\ focus \in TabFocuses
    /\ tm' = TmMoved(tm, tab_id, new_index)
    /\ ret' = [op |-> "move_tab",
               value |-> (TmGetTab(tm, tab_id) # 0 /\ 0 <= new_index
                            /\ new_index < Len(tm.tabs))]
    /\ UNCHANGED TmOthers

TmCloseInactiveTabs ==
    /\ focus \in TabFocuses
    /\ tm' = TmInactiveClosed(tm)
    /\ ret' = [op |-> "close_inactive_tabs"]
    /\ UNCHANGED TmOthers

TmCloseAllTabs(keep_pinned) ==
    /\ focus \in TabFocuses
    /\ tm' = TmAllClosed(tm, keep_pinned)
    /\ ret' = [op |-> "close_all_tabs"]
    /\ UNCHANGED TmOthers

TmCreateGroup(name) ==
    /\ focus \in TabFocuses
    /\ LET id == FreshUuid(TmUsedIds(tm))
       IN /\ tm' = [tm EXCEPT !.groups = Append(@, TabGroup(id, name, "#808080", now))]
          /\ ret' = [op |-> "create_group", value |-> id]
    /\ UNCHANGED TmOthers

TmAddToGroup(tab_id, group_id) ==
    /\ focus \in TabFocuses
    /\ LET g == TmGetGroup(tm, group_id)
       IN /\ tm' = IF g = 0 THEN tm
                   ELSE [tm EXCEPT !.groups[g] = TabGroupAddTab(@, tab_id)]
          /\ ret' = [op |-> "add_to_group", group_id |-> group_id, value |-> (g # 0)]
    /\ UNCHANGED TmOthers

TmRemoveFromGroup(tab_id) ==
    /\ focus \in TabFocuses
    /\ tm' = [tm EXCEPT !.groups =
                 [g \in 1..Len(tm.groups) |-> TabGroupRemoveTab(tm.groups[g], tab_id)]]
    /\ ret' = [op |-> "remove_from_group", value |-> TRUE]
    /\ UNCHANGED TmOthers

TmCloseGroupTabs(group_id) ==
    /\ focus \in TabFocuses
    /\ tm' = TmGroupTabsClosed(tm, group_id)
    /\ ret' = [op |-> "close_group_tabs"]
    /\ UNCHANGED TmOthers

TmDeleteGroup(group_id) ==
    /\ focus \in TabFocuses
    /\ LET g == TmGetGroup(tm, group_id)
       IN /\ tm' = IF g = 0 THEN tm ELSE [tm EXCEPT !.groups = RemoveAt(@, g)]
          /\ ret' = [op |-> "delete_group", value |-> (g # 0)]
    /\ UNCHANGED TmOthers

(***************************************************************************)
(* The managers as one system.  Arguments are drawn from small sets.       *)
(***************************************************************************)
Urls == {<<"a">>, <<"B">>}
Titles == {<<"x">>, <<"A", "b">>}
Queries == {<<"B">>, <<"X">>, <<"U">>, <<"b", "a">>}
FolderArgs == {"default", "work"}
CategoryArgs == {"default", "work"}
Sites == {<<"a">>, <<"B">>}
MasterPasswords == {"pw1", "pw2"}
Secrets == {<<"a">>}
MaxEntriesArgs == {1, DefaultMaxEntries}

Managers == {"bookmarks", "history", "todo", "calendar", "notes", "password"}
Blockers == {"site_blocker", "tracker_blocker"}

\* urls, rules, whitelist items, schedules and clock readings of the blocker runs
SbUrls == {<<"f", "b", "/", "A">>, <<"x">>}
RuleArgs ==
    {[pattern |-> <<"X">>, rule_type |-> "domain"],
     [pattern |-> <<"F", "B">>, rule_type |-> "prefix"],
     [pattern |-> <<"f", ".", "*", "A">>, rule_type |-> "regex"],
     [pattern |-> <<"(">>, rule_type |-> "regex"]}
WhitelistArgs == {<<"/", "A">>}
ScheduleArgs ==
    {[enabled |-> TRUE, start |-> DefaultScheduleStart, end |-> DefaultScheduleEnd,
      days |-> <<5, 6>>],
     [enabled |-> TRUE, start |-> <<"9", "a", "m">>, end |-> DefaultScheduleEnd,
      days |-> <<5, 6>>]}
\* Monday noon, Saturday noon, Saturday 17:00:01
Readings ==
    {[weekday |-> 0, time |-> 12 * 3600], [weekday |-> 5, time |-> 12 * 3600],
     [weekday |-> 5, time |-> 17 * 3600 + 1]}
TbUrls == {<<"h", ":", "/", "/", "f", ".", "b", ":", "8", "/", "x">>, <<"f", ".", "b", "/", "x">>}
TbDomains == {<<"f", ".", "b">>}

\* every manager newly constructed over an empty data directory
Constructed ==
    /\ now = 1
    /\ ret = Idle
    /\ bmFile = NoFile
    /\ bm = BmLoad(NoFile, 1)
    /\ histFile = NoFile
    /\ todoFile = NoFile
    /\ todo = TodoLoad(NoFile, None, 1)
    /\ calFile = NoFile
    /\ cal = [events |-> << >>, notes |-> << >>]
    /\ pnFile = NoFile
    /\ pn = [notes |-> << >>]
    /\ pwFile = NoFile
    /\ masterFile = NoFile
    /\ pw = PwNew(NoFile, NoFile, 1)
    /\ sbFile = NoFile
    /\ sb = SbLoad(NoFile, 1)
    /\ trFile = NoFile
    /\ tr = TrLoad(NoFile)
    /\ ckFile = NoFile
    /\ ck = CkLoad(NoFile, 1)
    /\ disk = "ok"
    /\ dm = DmNew
    /\ mm = MmNew
    /\ mmThreads = << >>
    /\ px = PxNew
    /\ pxFile = NoFile
    /\ pxCall = PxNoCall
    /\ tm = TmNew

Init ==
    /\ focus \in Managers
    /\ Constructed
    /\ \E n \in (IF focus = "history" THEN MaxEntriesArgs ELSE {DefaultMaxEntries}) :
          hist = HistLoad(NoFile, n, 1)

BmNext ==
    \/ \E u \in Urls, t \in Titles, f \in FolderArgs : BmAdd(u, t, f)
    \/ \E u \in Urls : BmRemove(u)
    \/ \E f \in FolderArgs : BmAddFolder(f)
    \/ \E f \in FolderArgs : BmRemoveFolder(f)

HistNext ==
    \/ \E u \in Urls, t \in Titles \cup {EmptyStr} : HistAdd(u, t)
    \/ \E u \in Urls : HistRemove(u)
    \/ HistClear

TodoNext ==
    \/ \E id \in GeneratedIds, c \in CategoryArgs : TodoAdd(id, <<"x">>, c)
    \/ \E id \in GeneratedIds : TodoRemove(id)
    \/ \E id \in GeneratedIds : TodoComplete(id)
    \/ \E id \in GeneratedIds : TodoUncomplete(id)
    \/ \E id \in GeneratedIds, c \in CategoryArgs : TodoUpdate(id, "category", c)
    \/ \E c \in CategoryArgs : TodoAddCategory(c)
    \/ \E c \in CategoryArgs : TodoRemoveCategory(c)

CalNext ==
    \/ \E id \in GeneratedIds, t \in Titles : CalAddEvent(id, t)
    \/ \E id \in GeneratedIds : CalRemoveEvent(id)
    \/ \E id \in GeneratedIds, t \in Titles : CalUpdateEvent(id, "title", t)

PnNext ==
    \/ \E id \in GeneratedIds, u \in Urls : PnAddNote(id, <<"x">>, u)
    \/ \E id \in GeneratedIds, c \in Titles : PnUpdateNote(id, c)
    \/ \E id \in GeneratedIds : PnDeleteNote(id)
    \/ \E u \in Urls : PnClearNotesForPage(u)

PwNext ==
    \/ \E p \in MasterPasswords : PwSetMasterPassword(p)
    \/ \E p \in MasterPasswords : PwUnlock(p)
    \/ PwLock
    \/ \E site \in Sites, p \in Secrets : PwAdd(site, <<"x">>, p)
    \/ \E site \in Sites, p \in Secrets : PwUpdate(site, p)
    \/ \E site \in Sites : PwRemove(site)

Next == Tick \/ BmNext \/ HistNext \/ TodoNext \/ CalNext \/ PnNext \/ PwNext

Spec == Init /\ [][Next]_vars

(***************************************************************************)
(* Searching: the bookmarks as above, and a history that one new page      *)
(* after the other fills beyond the default limits of get_all and search.  *)
(***************************************************************************)
\* str(n) for a natural number n
RECURSIVE DecimalStr(_)
DecimalStr(n) ==
    LET digit == SubSeq(<<"0", "1", "2", "3", "4", "5", "6", "7", "8", "9">>,
                        (n % 10) + 1, (n % 10) + 1)
    IN IF n < 10 THEN digit ELSE DecimalStr(n \div 10) \o digit

\* the n-th page visited: its url is "u<n>"; only the first page is titled "x"
PageUrl(n) == <<"u">> \o DecimalStr(n)
PageTitle(n) == IF n = 1 THEN <<"x">> ELSE <<"A", "b">>

\* texts and languages of the translator runs
TrTexts == {EmptyStr, <<"a">>, <<"U+044F", "U+0454">>, <<"U+4E2D", "a">>}
TrSources == {"auto", "en"}
TrTargets == {None, "ru"}

InitSearch ==
    /\ focus \in {"bookmarks", "history", "translator"}
    /\ Constructed
    /\ hist = HistLoad(NoFile, DefaultMaxEntries, 1)

HistVisitNewPage ==
    /\ Len(hist.history) < MaxHistory
    /\ HistAdd(PageUrl(Len(hist.history) + 1), PageTitle(Len(hist.history) + 1))

\* one more translate() of a new text with the default languages
TrTranslateNext ==
    /\ Len(tr.history) >= MaxList
    /\ Len(tr.history) < MaxTranslations
    /\ TrTranslate(PageUrl(Len(tr.history) + 1), "auto", None)

NextSearch ==
    \/ \E u \in Urls, t \in Titles : BmAdd(u, t, "default")
    \/ \E u \in Urls : BmRemove(u)
    \/ \E q \in Queries : BmSearchCall(q)
    \/ HistVisitNewPage
    \/ \E q \in Queries : HistSearchCall(q)
    \/ \E x \in TrTexts, s \in TrSources, t \in TrTargets :
          Len(tr.history) < MaxList /\ TrTranslate(x, s, t)
    \/ TrTranslateNext
    \/ Len(tr.history) <= MaxList /\ TrClearHistory

SpecSearch == InitSearch /\ [][NextSearch]_vars

(***************************************************************************)
(* The blocker runs: a SiteBlocker that is configured and asked about urls *)
(* at readings of the clock, and callers that construct a TrackerBlocker   *)
(* or a CryptoMinerBlocker, set it up and ask it about a url.              *)
(***************************************************************************)
InitBlock ==
    /\ focus \in Blockers
    /\ Constructed
    /\ hist = HistLoad(NoFile, DefaultMaxEntries, 1)

SbNext ==
    \/ \E u \in SbUrls, r \in Readings : SbShouldBlockCall(u, r.weekday, r.time)
    \/ \E r \in RuleArgs : SbAddRule(r.pattern, r.rule_type, EmptyStr)
    \/ \E r \in RuleArgs : SbRemoveRule(r.pattern)
    \/ \E r \in RuleArgs : SbEnableRule(r.pattern)
    \/ \E r \in RuleArgs : SbDisableRule(r.pattern)
    \/ \E w \in WhitelistArgs : SbAddToWhitelist(w)
    \/ \E w \in WhitelistArgs : SbRemoveFromWhitelist(w)
    \/ SbToggle
    \/ \E s \in ScheduleArgs : SbSetSchedule(s.enabled, s.start, s.end, s.days)

TbNext ==
    \/ \E g \in BOOLEAN, w \in SUBSET TbDomains, b \in SUBSET TbDomains, u \in TbUrls :
          TbSession(g, w, b, u)
    \/ \E g \in BOOLEAN, w \in SUBSET TbDomains, b \in SUBSET TbDomains, u \in TbUrls :
          CmSession(g, w, b, u)

NextBlock == SbNext \/ TbNext

SpecBlock == InitBlock /\ [][NextBlock]_vars

(***************************************************************************)
(* The restart runs: a manager writes its file, the file is damaged behind *)
(* its back (cut short, or one record loses its required key), and the     *)
(* manager is constructed again.                                           *)
(***************************************************************************)
Restartable == {"bookmarks", "site_blocker", "cookies"}
CookieDomains == {"d1", "d2"}
CookieNames == {"n1", "n2"}
CookieValues == {"v1"}

\* bookmarks.json is cut short (i = 0) or its i-th bookmark loses 'url'
BmFileDamage(i) ==
    /\ focus = "bookmarks"
    /\ bmFile.exists /\ JsonLoads(bmFile) /\ FirstWithout(bmFile.bookmarks, "url") = 0
    /\ i <= Len(bmFile.bookmarks)
    /\ bmFile' = IF i = 0 THEN Truncated
                 ELSE [bmFile EXCEPT !.bookmarks[i] = Without(@, "url")]
    /\ ret' = [op |-> "damage"]
    /\ UNCHANGED <<bm, BmOthers>>

\* BookmarkManager() in a new process
BmRestart ==
    /\ focus = "bookmarks"
    /\ bm' = BmLoad(bmFile, now)
    /\ ret' = [op |-> "restart"]
    /\ UNCHANGED <<bmFile, BmOthers>>

\* site_blocker.json is cut short (i = 0) or its i-th rule loses 'pattern'
SbFileDamage(i) ==
    /\ focus = "site_blocker"
    /\ sbFile.exists /\ JsonLoads(sbFile) /\ FirstWithout(sbFile.rules, "pattern") = 0
    /\ i <= Len(sbFile.rules)
    /\ sbFile' = IF i = 0 THEN Truncated
                 ELSE [sbFile EXCEPT !.rules[i] = Without(@, "pattern")]
    /\ ret' = [op |-> "damage"]
    /\ UNCHANGED <<sb, SbOthers>>

\* SiteBlocker() in a new process
SbRestart ==
    /\ focus = "site_blocker"
    /\ sb' = SbLoad(sbFile, now)
    /\ ret' = [op |-> "restart"]
    /\ UNCHANGED <<sbFile, SbOthers>>

\* cookies.json is cut short (i = 0) or the first cookie of its i-th domain
\* loses 'name'
CkFileDamage(i) ==
    /\ focus = "cookies"
    /\ ckFile.exists /\ JsonLoads(ckFile)
    /\ \A k \in 1..Len(ckFile.cookies) : FirstWithout(ckFile.cookies[k].cookies, "name") = 0
    /\ i <= Len(ckFile.cookies)
    /\ ckFile' = IF i = 0 THEN Truncated
                 ELSE [ckFile EXCEPT !.cookies[i].cookies[1] = Without(@, "name")]
    /\ ret' = [op |-> "damage"]
    /\ UNCHANGED <<ck, CkOthers>>

\* CookieManager() in a new process
CkRestart ==
    /\ focus = "cookies"
    /\ ck' = CkLoad(ckFile, now)
    /\ ret' = [op |-> "restart"]
    /\ UNCHANGED <<ckFile, CkOthers>>

InitLoad ==
    /\ focus \in Restartable
    /\ Constructed
    /\ hist = HistLoad(NoFile, DefaultMaxEntries, 1)

NextLoad ==
    \/ \E u \in Urls, t \in Titles : BmAdd(u, t, "default")
    \/ \E f \in FolderArgs : BmRemoveFolder(f)
    \/ \E i \in 0..MaxList : BmFileDamage(i)
    \/ BmRestart
    \/ \E r \in RuleArgs : SbAddRule(r.pattern, r.rule_type, EmptyStr)
    \/ SbToggle
    \/ \E w \in WhitelistArgs : SbAddToWhitelist(w)
    \/ \E i \in 0..MaxList : SbFileDamage(i)
    \/ SbRestart
    \/ \E d \in CookieDomains, n \in CookieNames, v \in CookieValues : CkSetCookie(d, n, v)
    \/ \E d \in CookieDomains : CkBlockDomain(d)
    \/ \E i \in 0..MaxList : CkFileDamage(i)
    \/ CkRestart

SpecLoad == InitLoad /\ [][NextLoad]_vars

(***************************************************************************)
(* The write-failure runs: the data directory stops and resumes accepting  *)
(* writes while bookmarks and history are changed.                         *)
(***************************************************************************)
\* the disk fills up or the directory becomes read-only
DiskFails ==
    /\ focus \in {"bookmarks", "history"}
    /\ disk = "ok"
    /\ disk' = "failing"
    /\ ret' = [op |-> "disk"]
    /\ UNCHANGED DiskOthers

DiskRecovers ==
    /\ focus \in {"bookmarks", "history"}
    /\ disk = "failing"
    /\ disk' = "ok"
    /\ ret' = [op |-> "disk"]
    /\ UNCHANGED DiskOthers

InitDisk ==
    /\ focus \in {"bookmarks", "history"}
    /\ Constructed
    /\ hist = HistLoad(NoFile, DefaultMaxEntries, 1)

NextDisk ==
    \/ DiskFails
    \/ DiskRecovers
    \/ \E u \in Urls, t \in Titles : BmAdd(u, t, "default")
    \/ \E u \in Urls : BmRemove(u)
    \/ \E u \in Urls, t \in Titles : HistAdd(u, t)
    \/ \E u \in Urls : HistRemove(u)
    \/ HistClear

SpecDisk == InitDisk /\ [][NextDisk]_vars

(***************************************************************************)
(* The callback runs: callbacks are registered with a SiteBlocker, a       *)
(* DownloadManager and a PomodoroTimer, and the operations that notify     *)
(* them are called.                                                        *)
(***************************************************************************)
Notifiers == {"site_blocker", "download_manager", "pomodoro"}
DownloadUrls == {<<"h", "/", "a">>, <<"h", "/">>}

\* the lists of at most MaxCallbacks callbacks
CallbackLists ==
    UNION {[1..n -> Callbacks] : n \in 0..MaxCallbacks}

\* the calls made on a PomodoroTimer after start_work in one session, and the
\* values given to set_sessions_until_long_break
PtCallNames == {"pause", "resume", "stop", "skip", "tick", "sleep"}
PtCallLists == UNION {[1..n -> PtCallNames] : n \in 1..MaxPtCalls}
LongBreakArgs == {1, 2}

InitNotify ==
    /\ focus \in Notifiers
    /\ Constructed
    /\ hist = HistLoad(NoFile, DefaultMaxEntries, 1)

NextNotify ==
    \/ \E c \in Callbacks : SbOnBlock(c)
    \/ \E r \in RuleArgs : SbAddRule(r.pattern, r.rule_type, EmptyStr)
    \/ SbToggle
    \/ \E u \in SbUrls, r \in Readings : SbShouldBlockCall(u, r.weekday, r.time)
    \/ \E c \in Callbacks : DmOnProgress(c)
    \/ \E id \in GeneratedIds, u \in DownloadUrls : DmAddDownload(id, u)
    \/ focus = "pomodoro" /\ \E l \in CallbackLists : PtSession(l)
    \/ focus = "pomodoro" /\ \E n \in LongBreakArgs, c \in PtCallLists : PtCalls(n, c)

SpecNotify == InitNotify /\ [][NextNotify]_vars

(***************************************************************************)
(* The media runs: download_video is called while the threads of earlier   *)
(* calls run.                                                              *)
(***************************************************************************)
VideoUrls == {"u1", "u2"}
VideoFiles == {"a.mp4", "b.mp4"}

InitMedia ==
    /\ focus = "media"
    /\ Constructed
    /\ hist = HistLoad(NoFile, DefaultMaxEntries, 1)

NextMedia ==
    \/ \E u \in VideoUrls, f \in VideoFiles : MmDownloadVideo(u, f)
    \/ \E k \in 1..MaxDownloads, o \in {"completed", "failed"} : MmTransferEnds(k, o)
    \/ \E k \in 1..MaxDownloads : MmMarkStep(k)

SpecMedia == InitMedia /\ [][NextMedia]_vars

(***************************************************************************)
(* The proxy runs: proxies are added and checked, threaded or not.         *)
(***************************************************************************)
ProxyHosts == {"p", "q"}
ProxyPorts == {8080}
CheckOutcomes ==
    {[connects |-> TRUE, latency |-> 7, at |-> 2],
     [connects |-> FALSE, latency |-> 0, at |-> 0]}

InitProxy ==
    /\ focus = "proxy"
    /\ Constructed
    /\ hist = HistLoad(NoFile, DefaultMaxEntries, 1)

NextProxy ==
    \/ \E h \in ProxyHosts, p \in ProxyPorts : PxAddProxy(h, p)
    \/ \E o \in [1..Len(px.proxies) -> CheckOutcomes] : PxCheckAllSequential(o)
    \/ \E o \in [1..Len(px.proxies) -> CheckOutcomes] : PxCheckAllStart(o)
    \/ \E k \in 1..MaxProxies : PxThreadStep(k)
    \/ PxCheckAllJoin

SpecProxy == InitProxy /\ [][NextProxy]_vars

(***************************************************************************)
(* The connection runs: proxies are added, checked one after the other and *)
(* removed while the manager connects, rotates and disconnects.  connect   *)
(* is given nothing, a proxy of the list, or a ProxyServer the caller      *)
(* built itself.                                                           *)
(***************************************************************************)
RotationModeArgs == {"sequential", "random", "best", "fastest"}
OwnProxies == {ProxyServer("p", 8080)}

ConnectArgs ==
    {[at |-> i, object |-> << >>] : i \in 0..MaxProxies}
        \cup {[at |-> 0, object |-> <<o>>] : o \in OwnProxies}

InitConnect ==
    /\ focus = "connection"
    /\ Constructed
    /\ hist = HistLoad(NoFile, DefaultMaxEntries, 1)

NextConnect ==
    \/ \E h \in ProxyHosts, p \in ProxyPorts : PxAddProxy(h, p)
    \/ \E h \in ProxyHosts, p \in ProxyPorts : PxRemoveProxy(h, p)
    \/ \E o \in [1..Len(px.proxies) -> CheckOutcomes] : PxCheckAllSequential(o)
    \/ \E proxy \in ConnectArgs : PxConnect(proxy)
    \/ PxDisconnect
    \/ \E choice \in 0..MaxProxies : PxRotate(choice)
    \/ \E mode \in RotationModeArgs : PxSetRotationMode(mode)

SpecConnect == InitConnect /\ [][NextConnect]_vars

(***************************************************************************)
(* The tab runs: a TabManager with a few tabs and groups under every       *)
(* operation, and a window in which one pinned tab after the other is      *)
(* opened up to max_tabs.                                                  *)
(***************************************************************************)
TabUrls == {"about:blank", "u"}
TabIndexes == {0, 1, 5}

\* the ids a caller can pass: those of the open tabs, those the groups hold,
\* and one that nothing holds
TmIdArgs == TmTabIds(tm) \cup TmGroupedIds(tm) \cup {FreshUuid(TmUsedIds(tm))}
TmGroupIdArgs ==
    {tm.groups[g].id : g \in 1..Len(tm.groups)} \cup {FreshUuid(TmUsedIds(tm))}

\* the sizes of the runs with groups: groups, ids in a group, open tabs
GroupCounts == {0, 1}
GroupedTabCounts == {0, 1, 2}
GroupedRunTabs == {0, 1, 2}

\* the small window of a run has room for n more tabs
TmRoom(n) ==
    IF focus = "tab_groups" THEN Len(tm.tabs) + n \in GroupedRunTabs
    ELSE Len(tm.tabs) + n <= MaxList

\* one more tab is opened in the background once every open tab is pinned;
\* the window starts from blank tabs opened one after the other
TmOpenNextTab ==
    /\ focus = "tabs"
    /\ Len(tm.tabs) >= MaxList
    /\ Len(tm.tabs) < MaxTabsOpened
    /\ \A i \in 1..Len(tm.tabs) :
          tm.tabs[i].is_pinned /\ tm.tabs[i].id = i /\ tm.tabs[i].url = "about:blank"
    /\ TmCreateTab("about:blank", FALSE)

\* the tab opened last is pinned
TmPinLastTab ==
    /\ focus = "tabs"
    /\ Len(tm.tabs) > MaxList
    /\ TmPinTab(tm.tabs[Len(tm.tabs)].id, TRUE)

InitTabs ==
    /\ focus \in TabFocuses
    /\ Constructed
    /\ hist = HistLoad(NoFile, DefaultMaxEntries, 1)

NextTabs ==
    \/ \E u \in TabUrls, a \in BOOLEAN :
          /\ TmRoom(1)
          /\ focus = "tab_groups" => u = "about:blank"
          /\ TmCreateTab(u, a)
    \/ TmOpenNextTab
    \/ TmPinLastTab
    \/ \E id \in TmIdArgs : TmRoom(0) /\ TmCloseTab(id)
    \/ \E id \in TmIdArgs : TmRoom(0) /\ TmSetActiveTab(id)
    \/ \E id \in TmIdArgs, p \in BOOLEAN :
          focus = "tabs" /\ TmRoom(0) /\ TmPinTab(id, p)
    \/ \E id \in TmIdArgs : TmRoom(1) /\ TmDuplicateTab(id)
    \/ \E id \in TmIdArgs, n \in TabIndexes : TmRoom(0) /\ TmMoveTab(id, n)
    \/ TmRoom(0) /\ TmCloseInactiveTabs
    \/ \E k \in BOOLEAN :
          /\ TmRoom(0) \/ Len(tm.tabs) >= tm.max_tabs
          /\ TmCloseAllTabs(k)
    \/ focus = "tab_groups" /\ Len(tm.groups) + 1 \in GroupCounts /\ TmCreateGroup("g")
    \/ \E id \in TmIdArgs, g \in TmGroupIdArgs :
          /\ TmRoom(0)
          /\ \A k \in 1..Len(tm.groups) : Len(tm.groups[k].tab_ids) + 1 \in GroupedTabCounts
          /\ TmAddToGroup(id, g)
    \/ \E id \in TmIdArgs : TmRoom(0) /\ TmRemoveFromGroup(id)
    \/ \E g \in TmGroupIdArgs : TmRoom(0) /\ TmCloseGroupTabs(g)
    \/ \E g \in TmGroupIdArgs : TmRoom(0) /\ TmDeleteGroup(g)

SpecTabs == InitTabs /\ [][NextTabs]_vars

(***************************************************************************)
(* The download runs: downloads are added, started, paused, resumed,       *)
(* cancelled and removed.                                                  *)
(***************************************************************************)
InitDownloads ==
    /\ focus = "download_manager"
    /\ Constructed
    /\ hist = HistLoad(NoFile, DefaultMaxEntries, 1)

\* uuid4 gives add_download an id that no download has
NextDownloads ==
    \/ Tick
    \/ \E id \in GeneratedIds, u \in DownloadUrls :
          /\ DmGetDownload(dm, id) = 0
          /\ DmAddDownload(id, u)
    \/ \E id \in GeneratedIds : DmStartDownload(id)
    \/ \E id \in GeneratedIds : DmPauseDownload(id)
    \/ \E id \in GeneratedIds : DmResumeDownload(id)
    \/ \E id \in GeneratedIds : DmCancelDownload(id)
    \/ \E id \in GeneratedIds : DmRemoveDownload(id)
    \/ DmClearCompleted

SpecDownloads == InitDownloads /\ [][NextDownloads]_vars

(***************************************************************************)
(* The cookie runs: cookies are set, read and deleted while domains are    *)
(* blocked and allowed and the clock ticks.                                *)
(***************************************************************************)
CookieValueArgs == {"v1", "v2"}
ListedDomains == {"d1"}
DaysArgs == {0, 1}

\* the number of cookies stored
CkCount(m) ==
    Cardinality({<<i, j>> \in (1..Len(m.cookies)) \X (1..MaxCookies) :
                    j <= Len(m.cookies[i].cookies)})

InitCookies ==
    /\ focus \in CookieFocuses
    /\ Constructed
    /\ hist = HistLoad(NoFile, DefaultMaxEntries, 1)

NextCookies ==
    \/ focus = "cookie_age" /\ Tick
    \/ \E d \in CookieDomains, n \in CookieNames, v \in CookieValueArgs :
          /\ focus = "cookie_age" => v = "v1"
          /\ CkNameIndex(ck, d, n) = 0 => CkCount(ck) < MaxCookies
          /\ CkSetCookie(d, n, v)
    \/ \E d \in CookieDomains, n \in CookieNames :
          focus = "cookie_age" /\ CkGetCookie(d, n)
    \/ \E d \in CookieDomains, n \in CookieNames : CkDeleteCookie(d, n)
    \/ \E d \in ListedDomains : focus = "cookies" /\ CkBlockDomain(d)
    \/ \E d \in ListedDomains : focus = "cookies" /\ CkUnblockDomain(d)
    \/ \E d \in ListedDomains : focus = "cookies" /\ CkAllowDomain(d)
    \/ \E d \in ListedDomains : focus = "cookies" /\ CkDisallowDomain(d)
    \/ \E days \in DaysArgs : focus = "cookie_age" /\ CkDeleteOlderThan(days)
    \/ \E days \in DaysArgs : focus = "cookie_age" /\ CkEnableAutoDelete(days)

SpecCookies == InitCookies /\ [][NextCookies]_vars

(***************************************************************************)
(* Claims.                                                                 *)
(***************************************************************************)
\* C1: after add(u, t) with the default folder, get_by_folder('default') holds
\* a bookmark with url u and title t; after remove(u), is_bookmarked(u) is
\* False, however often u had been added.
C1_AddListedRemoveGone ==
    focus = "bookmarks" =>
        /\ (ret.op = "add" /\ ret.folder = "default") =>
              LET listed == BmGetByFolder(bm, "default") IN
              \E i \in 1..Len(listed) :
                  listed[i].url = ret.url /\ listed[i].title = ret.title
        /\ ret.op = "remove" => ~BmIsBookmarked(bm, ret.url)

\* a remove(u) that found u bookmarked twice
C1_Witness ==
    /\ focus = "bookmarks"
    /\ ret.op = "remove"
    /\ Cardinality({i \in 1..Len(ret.before) : ret.before[i].url = ret.url}) = 2

\* C2: right after add returned the entity E, get with E's key (its id; its
\* site for a password) returns E.  ret.result is the position add put E at.
C2_AddThenGet ==
    ret.op = "add" =>
        /\ focus = "todo" => TodoGet(todo, ret.id) = ret.result
        /\ focus = "calendar" => CalGetEvent(cal, ret.id) = ret.result
        /\ focus = "password" => PwGet(pw, ret.site) = ret.result

\* the part of C2 about PasswordManager, whose add inserts at the front
C2_PasswordAddThenGet ==
    (focus = "password" /\ ret.op = "add") => PwGet(pw, ret.site) = ret.result

\* after has exactly the entries of before whose key is not k, in their order
KeptOthers(after, before, k) ==
    \E f \in [1..Len(after) -> 1..Len(before)] :
        /\ \A i \in 1..Len(after) : after[i] = before[f[i]] /\ after[i].id # k
        /\ \A i, j \in 1..Len(after) : i < j => f[i] < f[j]
        /\ \A b \in 1..Len(before) :
              before[b].id # k => \E i \in 1..Len(after) : f[i] = b

Matching(e, q) ==
    \E s \in {e.title, e.url} :
        \E i \in 0..(Len(s) - Len(q)) :
            \A j \in 1..Len(q) : LowerChar(s[i + j]) = LowerChar(q[j])

\* the positions of seq whose entry matches q
MatchingAt(seq, q) == {i \in 1..Len(seq) : Matching(seq[i], q)}

\* result is, in order, the first `most` matching entries of seq
FirstMatching(result, seq, q, most) ==
    LET M == MatchingAt(seq, q) IN
    /\ Len(result) = IF Cardinality(M) < most THEN Cardinality(M) ELSE most
    /\ \A k \in 1..Len(result) :
          \E i \in M : /\ result[k] = seq[i]
                        /\ Cardinality({j \in M : j < i}) = k - 1

\* C5 as claimed: search(q) returns exactly the entries of get_all() that
\* match q, in list order, however many entries are stored.
C5_SearchFiltersGetAll ==
    ret.op = "search" =>
        /\ focus = "bookmarks" =>
              LET all == BmGetAll(bm) IN
              FirstMatching(ret.result, all, ret.query, Len(all))
        /\ focus = "history" =>
              LET all == HistGetAll(hist, DefaultGetAllLimit) IN
              FirstMatching(ret.result, all, ret.query, Len(all))

\* C5 amended: BookmarkManager.search(q) returns the matching entries of
\* get_all(); HistoryManager.search(q) returns the first 50 matching entries
\* of the whole history, of which get_all() is only the first 100.
C5_SearchFiltersList ==
    ret.op = "search" =>
        /\ focus = "bookmarks" =>
              LET all == BmGetAll(bm) IN
              FirstMatching(ret.result, all, ret.query, Len(all))
        /\ focus = "history" =>
              FirstMatching(ret.result, hist.history, ret.query, DefaultSearchLimit)

\* a history search that returned an entry get_all() does not hold
C5_Witness ==
    /\ focus = "history"
    /\ ret.op = "search"
    /\ \E k \in 1..Len(ret.result) :
          LET all == HistGetAll(hist, DefaultGetAllLimit) IN
          \A i \in 1..Len(all) : all[i] # ret.result[k]

\* the last call was SiteBlocker.should_block
SbAsked == focus = "site_blocker" /\ ret.op = "SiteBlocker.should_block"

\* some whitelist item of the blocker is a case-insensitive substring of url
SbWhitelists(m, url) ==
    \E k \in 1..Len(m.whitelist) : Contains(Lower(m.whitelist[k]), Lower(url))

\* the call returned (False, None) and left the blocker as it was
SbAllowedUntouched ==
    /\ ret.raised = None
    /\ ret.result = <<FALSE, 0>>
    /\ sb = ret.before

\* C6, the SiteBlocker half: should_block returns (False, None) and records
\* nothing when the blocker is disabled or the url is whitelisted.
C6_SiteBlockerAllows ==
    (SbAsked /\ (~ret.before.enabled \/ SbWhitelists(ret.before, ret.url)))
        => SbAllowedUntouched

\* C6, the TrackerBlocker half: should_block returns (False, None) and records
\* nothing when the blocker was toggled off or the url's domain is whitelisted.
C6_TrackerBlockerAllows ==
    (/\ ret.op = "TrackerBlocker.should_block"
     /\ (ret.toggled \/ TbExtractDomain(ret.url) \in ret.whitelisted))
        => /\ ret.raised = None
           /\ ret.result = <<FALSE, 0>>
           /\ ret.after = ret.before

\* C6: TrackerBlocker.should_block and SiteBlocker.should_block return
\* (False, None) for every url whenever the blocker is disabled or the url is
\* whitelisted, and record no hit.
C6_DisabledOrWhitelistedAllows == C6_SiteBlockerAllows /\ C6_TrackerBlockerAllows

\* a whitelisted url that an enabled rule of an enabled SiteBlocker matches
C6_SiteBlockerWitness ==
    /\ SbAsked
    /\ ret.before.enabled
    /\ SbWhitelists(ret.before, ret.url)
    /\ \E k \in 1..Len(ret.before.rules) : BlockRuleMatches(ret.before.rules[k], ret.url)

\* one hit recorded for the domain under the category, and nothing else changed
TbOneHit(before, after, domain, category) ==
    /\ after.stats.total_blocked = before.stats.total_blocked + 1
    /\ after.stats.by_category = Incremented(before.stats.by_category, category)
    /\ after.stats.by_domain = Incremented(before.stats.by_domain, domain)
    /\ domain \in DOMAIN after.trackers
    /\ after.trackers[domain].blocked_count =
          1 + (IF domain \in DOMAIN before.trackers
               THEN before.trackers[domain].blocked_count ELSE 0)
    /\ \A d \in DOMAIN after.trackers \ {domain} :
          d \in DOMAIN before.trackers /\ after.trackers[d] = before.trackers[d]
    /\ after.enabled = before.enabled
    /\ after.whitelist = before.whitelist
    /\ after.blocked_domains = before.blocked_domains
    /\ after.filters = before.filters

\* C7: TrackerBlocker.should_block for an enabled blocker and a url that is not
\* whitelisted: a blocked domain gives (True, None) and one hit under 'manual';
\* otherwise the first matching filter f gives (True, f) and one hit under
\* f.category; otherwise (False, None) and nothing recorded.
C7_TrackerDecision ==
    (/\ ret.op = "TrackerBlocker.should_block"
     /\ ~ret.toggled
     /\ TbExtractDomain(ret.url) \notin ret.whitelisted)
        => /\ ret.raised = None
           /\ LET domain == TbExtractDomain(ret.url)
                  fs == ret.before.filters
                  hits == {k \in 1..Len(fs) : RegexMatch(fs[k].compiled, ret.url)}
              IN  IF domain \in ret.before.blocked_domains
                  THEN /\ ret.result = <<TRUE, 0>>
                       /\ TbOneHit(ret.before, ret.after, domain, "manual")
                  ELSE IF hits # {}
                  THEN \E k \in hits :
                          /\ \A j \in hits : k <= j
                          /\ ret.result = <<TRUE, k>>
                          /\ TbOneHit(ret.before, ret.after, domain, fs[k].category)
                  ELSE ret.result = <<FALSE, 0>> /\ ret.after = ret.before

\* the schedule of the blocker is inactive at the reading: the weekday is not
\* a schedule day, or the time lies outside [schedule_start, schedule_end]
SbScheduleInactive(m, weekday, time) ==
    \/ \A k \in 1..Len(m.schedule_days) : m.schedule_days[k] # weekday
    \/ /\ StrpTime(m.schedule_start) >= 0
       /\ StrpTime(m.schedule_end) >= 0
       /\ (time < StrpTime(m.schedule_start) \/ time > StrpTime(m.schedule_end))

\* the schedule of the blocker is active at the reading
SbScheduleActive(m, weekday, time) ==
    /\ \E k \in 1..Len(m.schedule_days) : m.schedule_days[k] = weekday
    /\ StrpTime(m.schedule_start) >= 0
    /\ StrpTime(m.schedule_end) >= 0
    /\ StrpTime(m.schedule_start) <= time
    /\ time <= StrpTime(m.schedule_end)

\* C8: with schedule_enabled and the schedule inactive, should_block returns
\* (False, None) for every url and records nothing; with schedule_enabled
\* False, the answer is the same at every reading of the clock and for every
\* stored schedule.
C8_ScheduleInactiveAllows ==
    /\ (SbAsked /\ ret.before.schedule_enabled
          /\ SbScheduleInactive(ret.before, ret.weekday, ret.time))
        => SbAllowedUntouched
    /\ (SbAsked /\ ~ret.before.schedule_enabled)
        => /\ ret.raised = None
           /\ \A r \in Readings, s \in ScheduleArgs, days \in {<<0>>, <<5, 6>>} :
                 LET other == [ret.before EXCEPT !.schedule_start = s.start,
                                                 !.schedule_end = s.end,
                                                 !.schedule_days = days]
                     out == SbShouldBlock(other, ret.url, r.weekday, r.time, now)
                 IN  /\ out.raised = None
                     /\ out.result = ret.result
                     /\ out.m.rules = sb.rules
                     /\ out.m.blocked_count = sb.blocked_count

\* an enabled blocker asked, outside its schedule, about a url that is not
\* whitelisted and that an enabled rule matches
C8_Witness ==
    /\ SbAsked
    /\ ret.before.enabled
    /\ ~SbWhitelists(ret.before, ret.url)
    /\ ret.before.schedule_enabled
    /\ SbScheduleInactive(ret.before, ret.weekday, ret.time)
    /\ StrpTime(ret.before.schedule_start) >= 0
    /\ \E k \in 1..Len(ret.before.rules) : BlockRuleMatches(ret.before.rules[k], ret.url)
    /\ ret.result = <<FALSE, 0>>

\* the blocker is enabled, the url is not whitelisted and the schedule permits
SbRulesDecide ==
    /\ SbAsked
    /\ ret.before.enabled
    /\ ~SbWhitelists(ret.before, ret.url)
    /\ (ret.before.schedule_enabled
           => SbScheduleActive(ret.before, ret.weekday, ret.time))

\* the positions of the enabled rules that match the url
SbEnabledMatching(m, url) ==
    {k \in 1..Len(m.rules) : m.rules[k].enabled /\ BlockRuleMatches(m.rules[k], url)}

\* the answer names the first enabled matching rule r; r.hit_count and
\* blocked_count went up by one, one entry was appended to blocked_pages, and
\* no other rule and no setting changed; without such a rule the answer is
\* (False, None) and nothing changed
SbFirstRuleBlocked ==
    LET hits == SbEnabledMatching(ret.before, ret.url)
        old == ret.before
    IN  /\ ret.raised = None
        /\ ret.result[2] # 0 => old.rules[ret.result[2]].enabled
        /\ IF hits = {} THEN ret.result = <<FALSE, 0>> /\ sb = old
           ELSE \E r \in hits :
                  /\ \A j \in hits : r <= j
                  /\ ret.result = <<TRUE, r>>
                  /\ Len(sb.rules) = Len(old.rules)
                  /\ sb.rules[r].hit_count = old.rules[r].hit_count + 1
                  /\ [sb.rules[r] EXCEPT !.hit_count = 0, !.last_hit = 0]
                        = [old.rules[r] EXCEPT !.hit_count = 0, !.last_hit = 0]
                  /\ \A j \in 1..Len(old.rules) : j # r => sb.rules[j] = old.rules[j]
                  /\ sb.blocked_count = old.blocked_count + 1
                  /\ Len(sb.blocked_pages) = Len(old.blocked_pages) + 1
                  /\ SubSeq(sb.blocked_pages, 1, Len(old.blocked_pages)) = old.blocked_pages
                  /\ sb.blocked_pages[Len(sb.blocked_pages)].url = ret.url
                  /\ sb.blocked_pages[Len(sb.blocked_pages)].rule = old.rules[r].pattern
                  /\ [sb EXCEPT !.rules = old.rules, !.blocked_count = old.blocked_count,
                                !.blocked_pages = old.blocked_pages] = old

\* C9 as claimed: ... and the new state is persisted: a SiteBlocker constructed
\* from the file afterwards is in the state the call left.
C9_FirstRuleBlocksAndStatePersisted ==
    SbRulesDecide =>
        /\ SbFirstRuleBlocked
        /\ ret.result[1] => SbLoad(sbFile, now) = sb

\* C9 amended: ... and the rules with their hit counts, blocked_count and the
\* settings are persisted, blocked_pages is not: a SiteBlocker constructed from
\* the file afterwards is in the state the call left but for an empty
\* blocked_pages.
C9_FirstRuleBlocksAndCountsPersisted ==
    SbRulesDecide =>
        /\ SbFirstRuleBlocked
        /\ ret.result[1] =>
              /\ sbFile = SbSaved(sb)
              /\ SbLoad(sbFile, now) = [sb EXCEPT !.blocked_pages = << >>]

\* the second rule blocked the url: the first one matches it but is disabled
C9_Witness ==
    /\ SbRulesDecide
    /\ ret.result = <<TRUE, 2>>
    /\ ~ret.before.rules[1].enabled
    /\ BlockRuleMatches([ret.before.rules[1] EXCEPT !.enabled = TRUE], ret.url)
    /\ sb.rules[2].hit_count = 1
    /\ sb.rules[1].hit_count = 0

\* C10: after whitelist_domain(d), CryptoMinerBlocker.should_block(url) returns
\* False for every url whose extracted domain is d.
C10_MinerWhitelistHonoured ==
    (/\ ret.op = "CryptoMinerBlocker.should_block"
     /\ TbExtractDomain(ret.url) \in ret.whitelisted)
        => ret.raised = None /\ ret.result = FALSE

\* the step is a call of HistoryManager.add
HistAddStep == focus = "history" /\ ret'.op = "add" /\ hist' # hist

\* C11: from an empty history, after any sequence of add/remove/clear no two
\* entries share a url and the length never exceeds max_entries; add(u) of a
\* stored url keeps the length, adds exactly 1 to that entry's visit_count and
\* moves it to index 0; add(u) of a new url puts an entry with visit_count 1
\* at index 0.
C11_HistoryUrlsUnique ==
    /\ [](focus = "history" =>
            /\ \A i, j \in 1..Len(hist.history) :
                   hist.history[i].url = hist.history[j].url => i = j
            /\ Len(hist.history) <= hist.max_entries)
    /\ [][HistAddStep =>
            LET old == hist.history
                new == hist'.history
                at == {i \in 1..Len(old) : old[i].url = ret'.url}
            IN  /\ new[1].url = ret'.url
                /\ IF at = {}
                   THEN /\ new[1].visit_count = 1
                        /\ Tail(new) = Take(old, hist.max_entries - 1)
                   ELSE \E i \in at :
                          /\ Len(new) = Len(old)
                          /\ new[1].visit_count = old[i].visit_count + 1
                          /\ Tail(new) = RemoveAt(old, i)]_vars

\* a stored url visited again while another entry stood before it
C11_Witness ==
    /\ focus = "history"
    /\ ret.op = "add"
    /\ Len(hist.history) = 2
    /\ hist.history[1].url = ret.url
    /\ hist.history[1].visit_count = 2
    /\ hist.history[2].last_visit > hist.history[1].first_visit

\* C12: after any sequence of BookmarkManager operations every bookmark's
\* folder is a key of folders, and after any sequence of TodoManager
\* operations every todo's category is an element of categories.
C12_FolderAndCategoryKnown ==
    /\ focus = "bookmarks" =>
          \A i \in 1..Len(bm.bookmarks) : bm.bookmarks[i].folder \in DOMAIN bm.folders
    /\ focus = "todo" =>
          \A i \in 1..Len(todo.todos) : InSeq(todo.todos[i].category, todo.categories)

\* the step is unlock(password) called right after lock()
PwUnlockAfterLock ==
    focus = "password" /\ ret.op = "lock" /\ ret'.op = "unlock"

\* C13: lock() followed by unlock(p), p the master password the manager was
\* unlocked with, returns True, and get_all() then holds exactly the entries
\* that were in memory just before lock(), in the same order.
C13_LockUnlockRoundTrip ==
    [][(PwUnlockAfterLock /\ ret.master # None /\ ret'.password = ret.master)
          => ret'.result /\ PwGetAll(pw') = ret.before]_vars

\* an unlock that brought two entries back into a locked manager
C13_Witness ==
    /\ focus = "password"
    /\ ret.op = "unlock"
    /\ ret.result
    /\ ret.locked
    /\ Len(PwGetAll(pw)) = 2
    /\ pw.passwords[1].site # pw.passwords[2].site

\* C14: an entry that add() put in memory is still in get_all() after lock()
\* and a successful unlock, whether the manager was unlocked or locked when
\* add() was called.
C14_AddedEntrySurvivesLock ==
    [][(PwUnlockAfterLock /\ ret'.result)
          => \A i \in 1..Len(ret.before) : InSeq(ret.before[i], PwGetAll(pw'))]_vars

\* C15: after any number of translate() calls, a Translator constructed
\* from the persisted file has the same history, entry for entry and in the
\* same order, as the Translator that made the calls.
C15_TranslatorRoundTrip ==
    focus = "translator" => TrLoad(trFile).history = tr.history

\* the file exists and reading it fails at some point
BmFileUnreadable ==
    bmFile.exists /\ (JsonLoads(bmFile) => FirstWithout(bmFile.bookmarks, "url") # 0)
SbFileUnreadable ==
    sbFile.exists /\ (JsonLoads(sbFile) => FirstWithout(sbFile.rules, "pattern") # 0)
CkFileUnreadable ==
    /\ ckFile.exists
    /\ JsonLoads(ckFile) =>
          \E k \in 1..Len(ckFile.cookies) :
              FirstWithout(ckFile.cookies[k].cookies, "name") # 0

\* C16: a SiteBlocker, CookieManager or BookmarkManager constructed over a
\* file that cannot be read to the end (malformed JSON, or a malformed record
\* part-way through) is in the state it has when no file exists; nothing
\* that was read before the failure remains.
C16_LoadFailureFallsBack ==
    ret.op = "restart" =>
        /\ (focus = "bookmarks" /\ BmFileUnreadable) => bm = BmLoad(NoFile, now)
        /\ (focus = "site_blocker" /\ SbFileUnreadable) => sb = SbLoad(NoFile, now)
        /\ (focus = "cookies" /\ CkFileUnreadable) => ck = CkLoad(NoFile, now)

\* C17: BookmarkManager.add/remove and HistoryManager.add/remove/clear
\* return normally, without raising, when writing the file fails.
C17_WriteFailureIgnored ==
    (focus \in {"bookmarks", "history"} /\ ret.op \in {"add", "remove", "clear"})
        => ~ret.raised

\* the names of the callbacks of a list, and of the callbacks called
CallbackNames(callbacks) == [i \in 1..Len(callbacks) |-> callbacks[i].name]
CalledNames(calls) == [i \in 1..Len(calls) |-> calls[i].callback]

\* C18: a notification of SiteBlocker.on_block, DownloadManager.on_progress
\* or PomodoroTimer.on_start calls every registered callback once, in the
\* order of registration, whether or not callbacks raise, and the operation
\* that notifies returns and changes the state as it does with no callback
\* registered.
C18_CallbacksAllCalledAndHarmless ==
    /\ (ret.op = "SiteBlocker.should_block" /\ ret.result[1]) =>
          LET bare == SbShouldBlock([ret.before EXCEPT !.on_block_callbacks = << >>],
                                    ret.url, ret.weekday, ret.time, now)
          IN  /\ CalledNames(ret.called) = CallbackNames(ret.before.on_block_callbacks)
              /\ ret.raised = None /\ ret.result = bare.result
              /\ [sb EXCEPT !.on_block_callbacks = << >>] = bare.m
              /\ sbFile = SbSaved(bare.m)
    /\ ret.op = "DownloadManager.add_download" =>
          /\ CalledNames(ret.called) = CallbackNames(ret.before.progress_callbacks)
          /\ ret.raised = None
          /\ dm.downloads = Append(ret.before.downloads, ret.result)
    /\ ret.op = "PomodoroTimer.start_work" =>
          /\ ret.raised = None
          /\ CalledNames(ret.called) = CallbackNames(ret.callbacks)
          /\ ret.after.state = "work" /\ ret.after.running

\* C19: the threads of download_video write the statuses of the shared
\* downloads list without synchronization.  The status of an entry is
\* 'downloading' or the outcome of a thread that downloads to the entry's
\* filename and whose loop has passed the entry -- its own thread or the
\* thread of another download; the witness is the interleaving in which an
\* entry is marked by the other thread while its own transfer still runs.
C19_StatusSetByAnyThreadOfTheFile ==
    focus = "media" =>
        /\ Len(mmThreads) = Len(mm.downloads)
        /\ \A e \in 1..Len(mm.downloads) :
              mm.downloads[e].status # "downloading" =>
                  \E k \in 1..Len(mmThreads) :
                      /\ mmThreads[k].filename = mm.downloads[e].filename
                      /\ mmThreads[k].outcome = mm.downloads[e].status
                      /\ \/ mmThreads[k].pc = "done"
                         \/ mmThreads[k].pc = "mark" /\ mmThreads[k].i > e

C19_Witness ==
    /\ focus = "media"
    /\ \E e \in 1..Len(mm.downloads), k \in 1..Len(mmThreads) :
          /\ k # e
          /\ mm.downloads[e].status \in {"completed", "failed"}
          /\ mmThreads[e].pc = "transfer"
          /\ mmThreads[k].url # mmThreads[e].url
          /\ mmThreads[k].filename = mm.downloads[e].filename
          /\ mmThreads[k].outcome = mm.downloads[e].status
          /\ mmThreads[k].i > e

\* a call check_all_proxies(threaded=True) has returned
PxThreadedCheckDone == focus = "proxy" /\ ret.op = "check_all_proxies" /\ ret.threaded

\* the threads of the call did not end in the order of the list
PxThreadsOvertook ==
    \E i, j \in 1..Len(ret.finished) : i < j /\ ret.finished[i] > ret.finished[j]

\* C20 as amended: every thread of check_all_proxies(threaded=True) writes
\* the fields of its own proxy only, and _save runs after the joins, so in
\* every interleaving the proxies and the file end as the sequential run
\* with the same per-proxy outcomes leaves them.
C20_ThreadedCheckEqualsSequential ==
    PxThreadedCheckDone =>
        /\ px = PxCheckedSequentially(ret.before, ret.outcomes)
        /\ pxFile = PxSaved(PxCheckedSequentially(ret.before, ret.outcomes))

C20_Witness ==
    /\ PxThreadedCheckDone
    /\ PxThreadsOvertook
    /\ Len(px.proxies) = 2
    /\ ~ret.outcomes[1].connects /\ ~ret.outcomes[2].connects
    /\ px.proxies[1].failures = 1 /\ px.proxies[2].failures = 1

\* C20 as stated: a threaded check whose threads interleave (they end out of
\* list order) leaves working/latency/failures values or a file that differ
\* from those of the sequential run with the same per-proxy outcomes.
C20_ThreadedCheckDiffers ==
    (PxThreadedCheckDone /\ PxThreadsOvertook) =>
        \/ px # PxCheckedSequentially(ret.before, ret.outcomes)
        \/ pxFile # PxSaved(PxCheckedSequentially(ret.before, ret.outcomes))

\* the ids that a group holds and no open tab has
TmDangling(m) == TmGroupedIds(m) \ TmTabIds(m)

\* C21: close_tab, close_inactive_tabs and close_all_tabs leave every
\* TabGroup.tab_ids as it is, so the ids of the closed tabs stay in the
\* groups; add_to_group with the id of an existing group puts the tab id in
\* that group whether or not a tab has it.
C21_GroupsKeepClosedTabs ==
    /\ [][(focus = "tab_groups"
            /\ ret'.op \in {"close_tab", "close_inactive_tabs", "close_all_tabs"})
           => tm'.groups = tm.groups]_vars
    /\ [][\A id \in TmIdArgs, g \in TmGroupIdArgs :
             (focus = "tab_groups" /\ TmAddToGroup(id, g) /\ TmGetGroup(tm, g) # 0)
             => /\ ret'.value
                /\ InSeq(id, tm'.groups[TmGetGroup(tm, g)].tab_ids)]_vars

\* a tab of a group was closed, and the group also holds an id given to
\* add_to_group that no tab ever had
C21_Witness ==
    /\ focus = "tab_groups"
    /\ ret.op = "close_tab" /\ ret.value
    /\ Len(tm.groups) = 1
    /\ Cardinality(TmDangling(tm)) = 2
    /\ tm.tabs # << >>

\* C22: active_tab_id is None or the id of an open tab, so get_active_tab
\* finds the tab of every active_tab_id that is not None.
C22_ActiveTabIsOpen ==
    focus \in TabFocuses =>
        /\ tm.active_tab_id = 0 \/ tm.active_tab_id \in TmTabIds(tm)
        /\ tm.active_tab_id # 0 => TmGetActiveTab(tm) # 0

\* the tabs of a group were closed, the active one among them, and a tab
\* that stays open became the active one
C22_Witness ==
    /\ focus = "tab_groups"
    /\ ret.op = "close_group_tabs"
    /\ Len(tm.tabs) = 1
    /\ tm.active_tab_id = tm.tabs[1].id
    /\ tm.groups # << >>

\* C23: the number of open tabs never exceeds max_tabs.
C23_TabLimit ==
    focus \in TabFocuses => Len(tm.tabs) <= tm.max_tabs

\* the download that the call of this step names, 0 if no download has the id
DmNamed == DmGetDownload(dm, ret'.download_id)

\* the step is a call of the DownloadManager operation op
DmCallStep(op) ==
    focus = "download_manager" /\ ret'.op = op /\ (ret' # ret \/ dm' # dm)

\* C24: a download is created pending; pause_download returns True exactly
\* from downloading and makes the state paused, resume_download returns True
\* exactly from paused and makes it downloading; a refused pause or resume and
\* every call with an unknown id return False and change nothing;
\* start_download and cancel_download succeed from every state; no download
\* is ever completed or failed.
C24_DownloadTransitions ==
    /\ [](focus = "download_manager" =>
            \A i \in 1..Len(dm.downloads) :
                dm.downloads[i].state \in {"pending", "downloading", "paused", "cancelled"})
    /\ [][DmCallStep("DownloadManager.add_download")
           => dm'.downloads[Len(dm'.downloads)].state = "pending"]_vars
    /\ [][DmCallStep("pause_download") =>
            /\ ret'.result <=> (DmNamed # 0 /\ dm.downloads[DmNamed].state = "downloading")
            /\ dm' = IF ret'.result
                      THEN [dm EXCEPT !.downloads[DmNamed].state = "paused"] ELSE dm]_vars
    /\ [][DmCallStep("resume_download") =>
            /\ ret'.result <=> (DmNamed # 0 /\ dm.downloads[DmNamed].state = "paused")
            /\ dm' = IF ret'.result
                      THEN [dm EXCEPT !.downloads[DmNamed].state = "downloading"] ELSE dm]_vars
    /\ [][DmCallStep("start_download") =>
            /\ ret'.result <=> DmNamed # 0
            /\ dm' = IF ret'.result
                      THEN [dm EXCEPT !.downloads[DmNamed].state = "downloading",
                                      !.downloads[DmNamed].started_at = now]
                      ELSE dm]_vars
    /\ [][DmCallStep("cancel_download") =>
            /\ ret'.result <=> DmNamed # 0
            /\ dm' = IF ret'.result
                      THEN [dm EXCEPT !.downloads[DmNamed].state = "cancelled"] ELSE dm]_vars

\* a cancelled download was started again while another one is paused
C24_Witness ==
    /\ focus = "download_manager"
    /\ ret.op = "start_download" /\ ret.result
    /\ Len(dm.downloads) = 2
    /\ dm.downloads[1].state = "paused"
    /\ dm.downloads[2].state = "downloading"
    /\ dm.downloads[2].id = ret.download_id
    /\ dm.downloads[2].started_at = 2

\* C25: in every state whose passwords.enc holds entries,
\* set_master_password(p2), lock() and unlock(p2) leave a manager whose
\* get_all() returns every one of those entries.
C25_MasterChangeKeepsEntries ==
    (focus = "password" /\ pwFile.exists) =>
        \A p2 \in MasterPasswords :
            LET m1 == PwMasterSet(pw, p2)
                f1 == PwSaved(m1, pwFile)
                m3 == PwUnlocked(PwLocked(m1), f1, p2, now)
            IN \A i \in 1..Len(pwFile.data) :
                   InSeq(PasswordEntryFromDict(pwFile.data[i], now), PwGetAll(m3))

\* the timer before and after the k-th call of the session in ret
PtBefore(k) == ret.trace[k].o
PtAfter(k) == ret.trace[k + 1].o

\* the k-th call of the session completed a session
PtCompleted(k) ==
    Len(PtAfter(k).sessions_history) > Len(PtBefore(k).sessions_history)

\* C26: the calls can be made; state is PAUSED exactly while the paused flag
\* is set; resume() right after a pause() of a running work or break session
\* clears the flag and gives state the value it had before pause().
C26_PauseResume ==
    ret.op = "PomodoroTimer.calls" =>
        /\ ret.raised = None
        /\ \A k \in 1..Len(ret.trace) :
               ret.trace[k].o.state = "paused" <=> ret.trace[k].o.paused
        /\ \A k \in 1..(Len(ret.calls) - 1) :
               (/\ ret.calls[k] = "pause" /\ ret.calls[k + 1] = "resume"
                /\ PtBefore(k).running /\ ~PtBefore(k).paused)
               => /\ ~PtAfter(k + 1).paused
                  /\ PtAfter(k + 1).state = PtBefore(k).state

\* C27: the calls can be made; a completed work session adds 1 to
\* total_sessions_completed and is followed by a long break with
\* session_count 0 when the count has reached sessions_until_long_break,
\* otherwise by a short break with the count one higher; a completed break
\* is followed by a work session; session_count stays below
\* sessions_until_long_break; tick on a stopped or paused timer returns
\* False and changes nothing.
C27_Cycle ==
    ret.op = "PomodoroTimer.calls" =>
        /\ ret.raised = None
        /\ \A k \in 1..Len(ret.calls) :
               LET b == PtBefore(k)
                   a == PtAfter(k)
               IN /\ (ret.calls[k] \in {"skip", "tick"} /\ PtCompleted(k)) =>
                        /\ a.session_count >= 0 /\ a.session_count < ret.n
                        /\ IF b.current_session.session_type = "work"
                           THEN /\ a.total_sessions_completed = b.total_sessions_completed + 1
                                /\ IF b.session_count + 1 >= ret.n
                                   THEN a.state = "long_break" /\ a.session_count = 0
                                   ELSE /\ a.state = "short_break"
                                        /\ a.session_count = b.session_count + 1
                           ELSE /\ a.state = "work"
                                /\ a.session_count = b.session_count
                                /\ a.total_sessions_completed = b.total_sessions_completed
                  /\ (ret.calls[k] = "tick" /\ (~b.running \/ b.paused)) =>
                        ret.trace[k + 1].result = "False" /\ a = b

\* the step is a call of the CookieManager operation op
CkCallStep(op) ==
    focus \in CookieFocuses /\ ret'.op = op /\ (ret' # ret \/ ck' # ck)

\* the cookie stored under (domain, name), or None
CkLookup(m, domain, name) ==
    IF CkNameIndex(m, domain, name) = 0 THEN None
    ELSE m.cookies[CkDomainIndex(m, domain)].cookies[CkNameIndex(m, domain, name)]

\* the cookies of the manager, whatever their order
CkAll(m) ==
    UNION {{m.cookies[i].cookies[j] : j \in 1..Len(m.cookies[i].cookies)} :
           i \in 1..Len(m.cookies)}

\* C28: set_cookie returns None and leaves the store and the file as they
\* are when the domain is blocked, allowed or not, or when there are allowed
\* domains and the domain is not one of them; otherwise exactly the cookie
\* under (domain, name) is replaced by the new one, which is returned, and
\* the file holds the store.
C28_SetCookie ==
    [][CkCallStep("set_cookie") =>
        LET d == ret'.domain
            n == ret'.name
            new == Cookie(n, ret'.value, d, 0, 0, now)
        IN IF d \in ck.blocked_domains
              \/ (ck.allowed_domains # {} /\ d \notin ck.allowed_domains)
           THEN ret'.result = 0 /\ ck' = ck /\ ckFile' = ckFile
           ELSE /\ ret'.result = 1
                /\ CkLookup(ck', d, n) = new
                /\ CkAll(ck') = (CkAll(ck) \ {c \in CkAll(ck) : c.domain = d /\ c.name = n})
                                   \cup {new}
                /\ Cardinality(CkAll(ck')) = CkCount(ck')
                /\ ckFile' = CkSaved(ck')
                /\ ck'.blocked_domains = ck.blocked_domains
                /\ ck'.allowed_domains = ck.allowed_domains]_vars

\* a cookie for a domain that is both blocked and allowed was refused while
\* the store holds two cookies, one of them under the refused name
C28_Witness ==
    /\ focus = "cookies"
    /\ ret.op = "set_cookie" /\ ret.result = 0
    /\ ret.domain \in ck.blocked_domains \cap ck.allowed_domains
    /\ CkCount(ck) = 2
    /\ CkNameIndex(ck, ret.domain, ret.name) # 0
    /\ CkLookup(ck, ret.domain, ret.name).value # ret.value
    /\ ckFile = CkSaved(ck)

\* C29: delete_older_than and enable_auto_delete raise nothing, remove
\* exactly the cookies last read before the cutoff, keep no empty domain and
\* leave the file holding the store.
C29_DeleteOlderThan ==
    [][(CkCallStep("delete_older_than") \/ CkCallStep("enable_auto_delete")) =>
        /\ ret'.raised = None
        /\ CkAll(ck') = {c \in CkAll(ck) : ~(c.last_accessed < now - ret'.days)}
        /\ \A i \in 1..Len(ck'.cookies) : ck'.cookies[i].cookies # << >>
        /\ ckFile' = CkSaved(ck')]_vars

\* C30: in every state a run of add_proxy, remove_proxy, check_all_proxies,
\* connect, disconnect, rotate and set_rotation_mode reaches, an enabled
\* manager has a current_proxy that is not None and is one of proxies.
C30_EnabledHasCurrentProxy ==
    (focus = "connection" /\ px.enabled) =>
        px.current_proxy \in 1..Len(px.proxies)

====
